---- MODULE Spec2Model ----
(***************************************************************************)
(* A model of hanzo.warctools: the bounded record stream (stream.py), the  *)
(* archive record with its lazy content (record.py), the WARC parser and   *)
(* writer (warc.py) and the mixed dispatch parser (mixed.py).              *)
(*                                                                         *)
(* Files are sequences of bytes; a byte is a one-character string.  Python *)
(* values that may be None, an int, a list or a tuple are tagged records   *)
(* (PyNone, PyInt, PyList, PyTuple).                                       *)
(***************************************************************************)
EXTENDS Integers, Sequences, FiniteSets, TLC

\* ------------------------------------------------------------------ bytes

CR == "\r"
LF == "\n"
SP == " "
TAB == "\t"
CRLF == <<CR, LF>>

\* The bytes Python's \s matches, among the bytes the model's files hold.
WS == {SP, TAB, CR, LF}

UpperCase == <<"A", "C", "D", "E", "I", "L", "R", "T", "U", "W">>
LowerCase == <<"a", "c", "d", "e", "i", "l", "r", "t", "u", "w">>

\* bytes.lower() on one byte
LowerByte(c) ==
    IF \E i \in 1..Len(UpperCase) : UpperCase[i] = c
    THEN LowerCase[CHOOSE i \in 1..Len(UpperCase) : UpperCase[i] = c]
    ELSE c

\* bytes.lower()
Lower(s) == [i \in 1..Len(s) |-> LowerByte(s[i])]

Drop(s, n) == SubSeq(s, n + 1, Len(s))
Take(s, n) == SubSeq(s, 1, n)

Min(a, b) == IF a < b THEN a ELSE b
Max(a, b) == IF a > b THEN a ELSE b

\* s starts with p, ignoring ASCII case (the regexps are compiled IGNORECASE)
StartsWithI(s, p) == Len(s) >= Len(p) /\ Lower(Take(s, Len(p))) = Lower(p)

\* bytes.strip(): whitespace removed at both ends
RECURSIVE LStrip(_)
LStrip(s) == IF s # <<>> /\ Head(s) \in WS THEN LStrip(Tail(s)) ELSE s
RECURSIVE RStrip(_)
RStrip(s) == IF s # <<>> /\ s[Len(s)] \in WS THEN RStrip(Take(s, Len(s) - 1)) ELSE s
Strip(s) == RStrip(LStrip(s))

\* b" ".join(parts)
RECURSIVE JoinSp(_)
JoinSp(parts) ==
    IF parts = <<>> THEN <<>>
    ELSE IF Len(parts) = 1 THEN parts[1]
    ELSE parts[1] \o <<SP>> \o JoinSp(Tail(parts))

\* ------------------------------------------------------- Python values

PyNone == [tag |-> "None", n |-> 0, l |-> <<>>]
PyInt(n) == [tag |-> "int", n |-> n, l |-> <<>>]
PyList(l) == [tag |-> "list", n |-> 0, l |-> l]
PyTuple(l) == [tag |-> "tuple", n |-> 0, l |-> l]

IsNone(v) == v.tag = "None"
IsInt(v) == v.tag = "int"

\* ---------------------------------------------------- int() and str()

Digits == <<"0", "1", "2", "3", "4", "5", "6", "7", "8", "9">>
IsDigit(c) == \E i \in 1..10 : Digits[i] = c
DigitVal(c) == (CHOOSE i \in 1..10 : Digits[i] = c) - 1

\* digits, with single underscores allowed between digits (PEP 515)
RECURSIVE DigitRun(_, _, _)
DigitRun(s, acc, afterDigit) ==
    IF s = <<>> THEN [ok |-> afterDigit, val |-> acc]
    ELSE IF IsDigit(Head(s)) THEN DigitRun(Tail(s), 10 * acc + DigitVal(Head(s)), TRUE)
    ELSE IF Head(s) = "_" /\ afterDigit THEN DigitRun(Tail(s), acc, FALSE)
    ELSE [ok |-> FALSE, val |-> 0]

\* int(value) of a bytes value: [ok |-> FALSE] is ValueError
PyIntOf(value) ==
    LET s == Strip(value) IN
    IF s = <<>> THEN [ok |-> FALSE, val |-> 0]
    ELSE IF Head(s) = "-" THEN
        LET r == DigitRun(Tail(s), 0, FALSE) IN [ok |-> r.ok, val |-> 0 - r.val]
    ELSE IF Head(s) = "+" THEN DigitRun(Tail(s), 0, FALSE)
    ELSE DigitRun(s, 0, FALSE)

\* str(n).encode("ascii") for n >= 0
RECURSIVE StrOfNat(_)
StrOfNat(n) ==
    IF n < 10 THEN <<Digits[n + 1]>>
    ELSE StrOfNat(n \div 10) \o <<Digits[(n % 10) + 1]>>

\* ------------------------------------------------------------ regexps

\* the line ends with a newline the patterns accept: (\r\n|\r|\n)\Z
EndsNl(s) == s # <<>> /\ s[Len(s)] \in {CR, LF}

\* the nl group after a lazy .*? group: the longest of \r\n, \r, \n at the end
NlOf(s) ==
    IF Len(s) >= 2 /\ s[Len(s) - 1] = CR /\ s[Len(s)] = LF THEN CRLF
    ELSE <<s[Len(s)]>>

\* the length of the run of whitespace that ends just before index i
RECURSIVE WsRunBefore(_, _)
WsRunBefore(s, i) ==
    IF i > 1 /\ s[i - 1] \in WS THEN 1 + WsRunBefore(s, i - 1) ELSE 0

\* the length of the run of whitespace at the start of s
RECURSIVE WsRunAt(_)
WsRunAt(s) == IF s # <<>> /\ Head(s) \in WS THEN 1 + WsRunAt(Tail(s)) ELSE 0

WARCSLASH == <<"W", "A", "R", "C", "/">>

\* version_rx = ^(?P<prefix>.*?)(?P<version>\s*WARC/(?P<number>.*?))(?P<nl>\r\n|\r|\n)\Z
version_rx(line) ==
    LET at == {i \in 1..Len(line) : StartsWithI(Drop(line, i - 1), WARCSLASH)} IN
    IF at = {} \/ ~EndsNl(line) THEN [match |-> FALSE]
    ELSE
        LET w == CHOOSE i \in at : \A j \in at : i <= j
            rest == Drop(line, w + 4)
        IN  IF ~EndsNl(rest) THEN [match |-> FALSE]
            ELSE
                LET nl == NlOf(rest)
                    number == Take(rest, Len(rest) - Len(nl))
                    p == w - 1 - WsRunBefore(line, w)
                IN  [match |-> TRUE,
                     prefix |-> Take(line, p),
                     version |-> SubSeq(line, p + 1, Len(line) - Len(nl)),
                     number |-> number,
                     nl |-> nl]

\* header_rx = ^(?P<name>.*?):\s?(?P<value>.*?)(?P<nl>\r\n|\r|\n)\Z
header_rx(line) ==
    LET at == {i \in 1..Len(line) : line[i] = ":"} IN
    IF at = {} \/ ~EndsNl(line) THEN [match |-> FALSE]
    ELSE
        LET c == CHOOSE i \in at : \A j \in at : i <= j
            rest == Drop(line, c)
            \* \s? takes one whitespace byte when the rest can still match
            rem == IF Len(rest) >= 2 /\ rest[1] \in WS THEN Tail(rest) ELSE rest
            nl == NlOf(rem)
        IN  [match |-> TRUE,
             name |-> Take(line, c - 1),
             value |-> Take(rem, Len(rem) - Len(nl)),
             nl |-> nl]

\* value_rx = ^\s+(?P<value>.+?)(?P<nl>\r\n|\r|\n)\Z     (continuation lines)
value_rx(line) ==
    IF Len(line) < 3 \/ ~EndsNl(line) \/ line[1] \notin WS THEN [match |-> FALSE]
    ELSE
        LET k == Min(WsRunAt(line), Len(line) - 2)
            rem == Drop(line, k)
            nl == IF Len(rem) >= 3 THEN NlOf(rem) ELSE <<rem[Len(rem)]>>
        IN  [match |-> TRUE,
             value |-> Take(rem, Len(rem) - Len(nl)),
             nl |-> nl]

\* nl_rx = ^(?P<nl>\r\n|\r|\n\Z): a line that starts with \r, or the line "\n"
nl_rx(line) == line # <<>> /\ (line[1] = CR \/ line = <<LF>>)

\* re.match(rb"^[\r\n]+$", line) in the transports' _read_record
IsBlankLine(line) == line # <<>> /\ \A i \in 1..Len(line) : line[i] \in {CR, LF}

\* -------------------------------------------------- the file handle

\* The gzip framing of one member: the two magic bytes, the member's data
\* and a trailer.  Compression itself is not modelled: a member holds its
\* data as stored bytes, which keeps member boundaries and outer offsets.
GZ_MAGIC == <<"\\x1f", "\\x8b">>
GZ_TRAILER == "gz-trailer"

\* GzipFile(fileobj=out).write(data); close(): one member appended
GzipMember(data) == GZ_MAGIC \o data \o <<GZ_TRAILER>>

\* What gzip.GzipFile reads from an outer file from position `from` on: the
\* data of every member up to the end of the file, as one stream.  ok is
\* FALSE where gzip raises BadGzipFile (the magic bytes are not there).
RECURSIVE Gunzip(_, _)
Gunzip(raw, from) ==
    IF from >= Len(raw) THEN [ok |-> TRUE, data |-> <<>>]
    ELSE IF Len(raw) < from + 2 \/ SubSeq(raw, from + 1, from + 2) # GZ_MAGIC
    THEN [ok |-> FALSE, data |-> <<>>]
    ELSE
        LET ends == {j \in (from + 3)..Len(raw) : raw[j] = GZ_TRAILER} IN
        IF ends = {} THEN [ok |-> FALSE, data |-> <<>>]
        ELSE
            LET e == CHOOSE j \in ends : \A k \in ends : j <= k
                more == Gunzip(raw, e)
            IN  [ok |-> more.ok, data |-> SubSeq(raw, from + 3, e - 1) \o more.data]

\* The end of the line that starts after position pos: the first \n, or EOF.
RECURSIVE EndOfLine(_, _)
EndOfLine(data, pos) ==
    IF pos >= Len(data) THEN Len(data)
    ELSE IF data[pos + 1] = LF THEN pos + 1
    ELSE EndOfLine(data, pos + 1)

\* fh.read(count): count None or negative reads to the end of the file
fh_read(st, count) ==
    LET avail == Len(st.data) - st.pos
        k == IF IsNone(count) \/ count.n < 0 THEN avail ELSE Min(count.n, avail)
    IN  [st |-> [st EXCEPT !.pos = st.pos + k, !.touched = TRUE],
         result |-> SubSeq(st.data, st.pos + 1, st.pos + k)]

\* fh.readline(lim): lim None or negative reads the whole line
fh_readline(st, lim) ==
    LET whole == EndOfLine(st.data, st.pos) - st.pos
        k == IF IsNone(lim) \/ lim.n < 0 THEN whole ELSE Min(lim.n, whole)
    IN  [st |-> [st EXCEPT !.pos = st.pos + k, !.touched = TRUE],
         result |-> SubSeq(st.data, st.pos + 1, st.pos + k)]

\* ------------------------------------------------------- RecordStream

CHUNK_SIZE == 8192

\* RecordStream.__init__ around a file handle that reads `data`
NewStream(kind, raw, data) ==
    [kind |-> kind, parser |-> "warc", raw |-> raw, data |-> data, pos |-> 0,
     touched |-> FALSE, bytes_to_eoc |-> PyNone, member_offset |-> 0]

\* RecordStream._read
raw_read(st, count) ==
    LET r == fh_read(st, count) IN
    [st |-> IF IsNone(st.bytes_to_eoc) THEN r.st
            ELSE [r.st EXCEPT !.bytes_to_eoc = PyInt(st.bytes_to_eoc.n - Len(r.result))],
     result |-> r.result]

\* A read_size that forgets the counter: what read and readline would ask
\* of the file if they were not bound to the record.
ReadSizeUnbounded(eoc, count) == count

\* the read_size that RecordStream.read and RecordStream.readline compute
ReadSize(eoc, count) ==
    IF ~IsNone(eoc) /\ ~IsNone(count) THEN PyInt(Min(count.n, eoc.n))
    ELSE IF ~IsNone(eoc) THEN eoc
    ELSE IF ~IsNone(count) THEN count
    ELSE PyNone

\* RecordStream.read
read(st, count) == raw_read(st, ReadSize(st.bytes_to_eoc, count))

\* RecordStream.readline
readline(st, maxlen) ==
    LET r == fh_readline(st, ReadSize(st.bytes_to_eoc, maxlen)) IN
    [st |-> IF IsNone(st.bytes_to_eoc) THEN r.st
            ELSE [r.st EXCEPT !.bytes_to_eoc = PyInt(st.bytes_to_eoc.n - Len(r.result))],
     result |-> r.result]

\* RecordStream._skip_to_eoc; raised is the Exception of a short or unset read
RECURSIVE skip_to_eoc(_)
skip_to_eoc(st) ==
    IF IsNone(st.bytes_to_eoc) THEN [st |-> st, raised |-> TRUE]
    ELSE IF st.bytes_to_eoc.n > 0 THEN
        LET read_size == Min(CHUNK_SIZE, st.bytes_to_eoc.n)
            r == raw_read(st, PyInt(read_size))
        IN  IF Len(r.result) < read_size THEN [st |-> r.st, raised |-> TRUE]
            ELSE skip_to_eoc(r.st)
    ELSE [st |-> st, raised |-> FALSE]

\* ------------------------------------------------------ ArchiveRecord

\* WarcRecord's header-name constants
DATE == <<"W", "A", "R", "C", "-", "D", "a", "t", "e">>
TYPE == <<"W", "A", "R", "C", "-", "T", "y", "p", "e">>
ID == <<"W", "A", "R", "C", "-", "R", "e", "c", "o", "r", "d", "-", "I", "D">>
URL == <<"W", "A", "R", "C", "-", "T", "a", "r", "g", "e", "t", "-", "U", "R", "I">>
CONTENT_LENGTH == <<"C", "o", "n", "t", "e", "n", "t", "-", "L", "e", "n", "g", "t", "h">>
CONTENT_TYPE == <<"C", "o", "n", "t", "e", "n", "t", "-", "T", "y", "p", "e">>
VERSION == <<"W", "A", "R", "C", "/", "1", ".", "0">>

PyBytes(b) == [tag |-> "bytes", n |-> 0, l |-> b]

\* The content_file of a record: None, the RecordStream the record was
\* parsed from, or a BytesIO the application supplied (its data and position).
NoFile == [kind |-> "None", data |-> <<>>, pos |-> 0]
StreamFile == [kind |-> "stream", data |-> <<>>, pos |-> 0]
BytesIO(data) == [kind |-> "bytesio", data |-> data, pos |-> 0]

\* _content is None
Unresolved == [resolved |-> FALSE, type |-> PyNone, data |-> <<>>]
\* _content is the tuple (content_type, content)
ContentPair(type, data) == [resolved |-> TRUE, type |-> type, data |-> data]

\* WarcRecord.__init__ (ArchiveRecord.__init__ and the content_file setter)
WarcRecord(version, headers, content, errors, content_file) ==
    [version |-> version,
     headers |-> headers,
     errors |-> errors,
     content |-> content,
     content_file |-> content_file,
     content_file_valid |-> content_file.kind # "None"]

\* A lookup that compares the names byte for byte.
get_header_exact(rec, name) ==
    LET hit == {i \in 1..Len(rec.headers) : rec.headers[i][1] = name} IN
    IF hit = {} THEN PyNone
    ELSE PyBytes(rec.headers[CHOOSE i \in hit : \A j \in hit : i <= j][2])

\* ArchiveRecord.get_header: the first value whose name matches, else None
get_header(rec, name) ==
    LET hit == {i \in 1..Len(rec.headers) : Lower(rec.headers[i][1]) = Lower(name)} IN
    IF hit = {} THEN PyNone
    ELSE PyBytes(rec.headers[CHOOSE i \in hit : \A j \in hit : i <= j][2])

\* ArchiveRecord.error
error(rec, e) == [rec EXCEPT !.errors = Append(rec.errors, e)]

\* ---------------------------------------------------------- WarcParser

bad_lines == 5
KNOWN_VERSIONS == {<<"1", ".", "0">>, <<"1", ".", "1">>, <<"0", ".", "1", "7">>,
                   <<"0", ".", "1", "8">>}

\* length_rx = ^Content-Length$ and type_rx = ^Content-Type$, IGNORECASE
length_rx(name) == Lower(name) = Lower(CONTENT_LENGTH)
type_rx(name) == Lower(name) = Lower(CONTENT_TYPE)

NoRecord == WarcRecord(<<>>, <<>>, Unresolved, <<>>, NoFile)

\* parse's result: (record, errors, offset), the stream as parse leaves it,
\* hang when parse does not return, raised when it raises.
ParseResult(st, isrec, rec, errors, offset, hang, raised) ==
    [st |-> st, isrec |-> isrec, rec |-> rec, errors |-> errors, offset |-> offset,
     hang |-> hang, raised |-> raised]

\* the continuation lines of one header (warc.py 538-550)
RECURSIVE FollowLoop(_, _, _, _)
FollowLoop(st, line, value, rec) ==
    LET Match(m) ==
            IF ~m.match THEN [st |-> st, line |-> line, value |-> value, rec |-> rec]
            ELSE
                LET Line(r) ==
                        FollowLoop(r.st, r.result, Append(value, Strip(m.value)),
                            IF m.nl # CRLF
                            THEN error(rec, <<"incorrect newline in follow header", line, m.nl>>)
                            ELSE rec)
                IN  Line(readline(st, PyNone))
    IN  Match(value_rx(line))

\* record.headers.append((name, value)) with no check of the value
AppendHeaderUnchecked(rec, name, value, len) ==
    [rec EXCEPT !.headers = Append(rec.headers, <<name, value>>)]

\* record.headers.append((name, value)) and the checks of Content-Type and
\* Content-Length (warc.py 554-567); len is int(value)
AppendHeader(rec, name, value, len) ==
    LET Appended(rec2) ==
            IF type_rx(name)
            THEN IF value # <<>> THEN rec2
                 ELSE error(rec2, <<"invalid header", name, value>>)
            ELSE IF length_rx(name) /\ ~len.ok
            THEN error(rec2, <<"invalid header", name, value>>)
            ELSE rec2
    IN  Appended([rec EXCEPT !.headers = Append(rec.headers, <<name, value>>)])

\* the header loop (warc.py 527-567); a line that is not blank and does not
\* match header_rx is never replaced, so the loop does not end
RECURSIVE HeaderLoop(_, _, _, _)
HeaderLoop(st, line, rec, content_length) ==
    IF line = <<>> \/ nl_rx(line)
    THEN [st |-> st, rec |-> rec, content_length |-> content_length, hang |-> FALSE]
    ELSE
        LET Match(m) ==
                IF ~m.match
                THEN [st |-> st, rec |-> rec, content_length |-> content_length,
                      hang |-> TRUE]
                ELSE
                    LET Header(f, name, value, len) ==
                            HeaderLoop(f.st, f.line, AppendHeader(f.rec, name, value, len),
                                IF ~type_rx(name) /\ length_rx(name) /\ len.ok
                                THEN len.val ELSE content_length)
                        Followed(f) ==
                            Header(f, Strip(m.name), JoinSp(f.value), PyIntOf(JoinSp(f.value)))
                        Line(r) ==
                            Followed(FollowLoop(r.st, r.result, <<Strip(m.value)>>,
                                IF m.nl # CRLF
                                THEN error(rec, <<"incorrect newline in header", m.nl>>)
                                ELSE rec))
                    IN  Line(readline(st, PyNone))
        IN  Match(header_rx(line))

\* offset += n, when offset is not None
OffsetPlus(offset, n) == IF IsNone(offset) THEN offset ELSE PyInt(offset.n + n)

\* WarcRecord(errors=errors, version=version) and the errors of the version
\* line (warc.py 506-523), the unknown version apart
VersionRecord(errors, match) ==
    LET Prefix(rec) ==
            IF match.prefix # <<>>
            THEN error(rec, <<"bad prefix on WARC version header", match.prefix>>)
            ELSE rec
        Newline(rec) ==
            Prefix(IF match.nl # CRLF
                   THEN error(rec, <<"incorrect newline in version", match.nl>>)
                   ELSE rec)
    IN  Newline(WarcRecord(match.version, <<>>, Unresolved, errors, NoFile))

\* WarcParser.parse once the version line has matched (warc.py 503-586)
ParseRecord(st, offset, errors, match) ==
    \* ",".join(self.KNOWN_VERSIONS) joins bytes with a str: the message of
    \* the unknown-version error cannot be built, and parse raises TypeError
    IF match.number \notin KNOWN_VERSIONS
    THEN ParseResult(st, FALSE, NoRecord, PyNone, offset, FALSE, TRUE)
    ELSE
        LET Headers(h) ==
                IF h.hang THEN ParseResult(h.st, FALSE, NoRecord, PyNone, offset, TRUE, FALSE)
                ELSE ParseResult(
                        [h.st EXCEPT !.bytes_to_eoc = PyInt(h.content_length)],
                        TRUE,
                        [h.rec EXCEPT !.content_file = StreamFile,
                                      !.content_file_valid = TRUE],
                        PyTuple(<<>>), offset, FALSE, FALSE)
            Line(r) == Headers(HeaderLoop(r.st, r.result, VersionRecord(errors, match), 0))
        IN  Line(readline(st, PyNone))

\* the search for the version line (warc.py 482-502), from a line in hand
RECURSIVE SeekVersion(_, _, _, _)
SeekVersion(st, offset, line, errors) ==
    IF line = <<>>
    \* version is still None here: "warc version but no headers" is not added
    THEN ParseResult(st, FALSE, NoRecord, PyList(errors), offset, FALSE, FALSE)
    ELSE
        LET Line(r, offset1, errors1) == SeekVersion(r.st, offset1, r.result, errors1)
            Ignored(offset1, errors1) ==
                IF ~nl_rx(line) /\ Len(errors1) > bad_lines
                THEN ParseResult(st, FALSE, NoRecord,
                        PyList(Append(errors1, <<"too many errors, giving up hope">>)),
                        offset1, FALSE, FALSE)
                ELSE Line(readline(st, PyNone), offset1, errors1)
            Match(match) ==
                IF match.match
                THEN ParseRecord(st, OffsetPlus(offset, Len(match.prefix)), errors, match)
                ELSE Ignored(OffsetPlus(offset, Len(line)),
                             IF nl_rx(line) THEN errors
                             ELSE Append(errors, <<"ignored line", line>>))
        IN  Match(version_rx(line))

\* line = stream.readline() where the caller has no line in hand
FirstLine(st, line) ==
    IF IsNone(line) THEN readline(st, PyNone) ELSE [st |-> st, result |-> line.l]

\* WarcParser.parse(stream, offset, line); line is None or bytes
WarcParser_parse(st, offset, line) ==
    LET Line(r) == SeekVersion(r.st, offset, r.result, <<>>)
    IN  Line(FirstLine(st, line))

\* ----------------------------------------------- ArcParser, MixedParser

\* line.split(b" ") of a line without its line end
RECURSIVE SplitSp(_, _)
SplitSp(s, cur) ==
    IF s = <<>> THEN <<cur>>
    ELSE IF Head(s) = SP THEN <<cur>> \o SplitSp(Tail(s), <<>>)
    ELSE SplitSp(Tail(s), Append(cur, Head(s)))

ARC_FIELDS == <<<<"U", "R", "L">>, <<"I", "P">>, <<"D", "a", "t", "e">>,
                <<"T", "y", "p", "e">>, <<"L", "e", "n", "g", "t", "h">>>>

\* ArcParser.parse: the one-line header "url ip date content-type length",
\* then the payload; the cursor is bound to the declared length.
ArcParser_parse(st, offset, line) ==
    LET fields == SplitSp(Strip(line.l), <<>>)
        len == PyIntOf(fields[Len(fields)])
    IN  IF Len(fields) = 5 /\ len.ok
        THEN ParseResult(
                [st EXCEPT !.bytes_to_eoc = PyInt(len.val)],
                TRUE,
                WarcRecord(<<>>, [i \in 1..5 |-> <<ARC_FIELDS[i], fields[i]>>],
                           Unresolved, <<>>, StreamFile),
                PyTuple(<<>>), offset, FALSE, FALSE)
        ELSE ParseResult(st, FALSE, NoRecord,
                PyList(<<<<"invalid arc header", line.l>>>>), offset, FALSE, FALSE)

\* line.startswith(b"WARC")
StartsWithWARC(line) == Len(line) >= 4 /\ Take(line, 4) = <<"W", "A", "R", "C">>

\* A dispatch that reads a line of its own instead of using the line it was
\* given, and skips no blank line.
MixedLoopRereads(st, line) ==
    LET Line(r) == [st |-> r.st, result |-> r.result] IN Line(readline(st, PyNone))

\* the while loop of MixedParser.parse (mixed.py 56-62) up to the line it
\* hands to a parser: blank lines are skipped
RECURSIVE MixedLoop(_, _)
MixedLoop(st, line) ==
    IF line = <<>> \/ StartsWithWARC(line) \/ line \notin {<<LF>>, CRLF, <<CR>>}
    THEN [st |-> st, result |-> line]
    ELSE LET Line(r) == MixedLoop(r.st, r.result) IN Line(readline(st, PyNone))

\* MixedParser.parse(stream, offset, line) up to its return statement: the
\* parser it returns the result of ("none" for return None, (), offset), and
\* the stream and the line that parser is given
MixedParser_parse(st, line) ==
    LET Parser(r) ==
            [st |-> r.st, line |-> PyBytes(r.result),
             parser |-> IF r.result = <<>> THEN "none"
                        ELSE IF StartsWithWARC(r.result) THEN "warc" ELSE "arc"]
        Line(r) == Parser(MixedLoop(r.st, r.result))
    IN  Line(FirstLine(st, line))

\* self.record_parser.parse(self, offset, line): WarcParser.parse, or
\* MixedParser.parse and the parse it returns the result of
record_parser_parse(st, offset, line) ==
    LET Parse(d) ==
            IF d.parser = "none"
            THEN ParseResult(d.st, FALSE, NoRecord, PyTuple(<<>>), offset, FALSE, FALSE)
            ELSE IF d.parser = "arc" THEN ArcParser_parse(d.st, offset, d.line)
            ELSE WarcParser_parse(d.st, offset, d.line)
    IN  Parse(IF st.parser = "mixed" THEN MixedParser_parse(st, line)
              ELSE [st |-> st, line |-> line, parser |-> "warc"])

\* --------------------------------------------------------- transports

\* the loop over fh.readline() that skips the record terminator
RECURSIVE SkipBlankLines(_)
SkipBlankLines(st) ==
    LET Line(r) == IF IsBlankLine(r.result) THEN SkipBlankLines(r.st) ELSE r
    IN  Line(fh_readline(st, PyNone))

\* What _read_record returns: the tuple (first, second, third) that read_records
\* unpacks as (offset, record, errors), the stream, and raised or hang when
\* nothing is returned.
ReadResult(st, first, isrec, rec, third, hang, raised) ==
    [st |-> st, first |-> first, isrec |-> isrec, rec |-> rec, third |-> third,
     hang |-> hang, raised |-> raised]

\* A transport that forgets the payload it has not read: bytes_to_eoc is
\* cleared and nothing is skipped.
SkipRecordForgotten(st) ==
    [st |-> [st EXCEPT !.bytes_to_eoc = PyNone], raised |-> FALSE]

\* if self.bytes_to_eoc is not None: self._skip_to_eoc(); then
\* self.bytes_to_eoc = None, which a raise leaves undone
SkipRecord(st) ==
    LET Skipped(sk) ==
            [st |-> IF sk.raised THEN sk.st ELSE [sk.st EXCEPT !.bytes_to_eoc = PyNone],
             raised |-> sk.raised]
    IN  IF IsNone(st.bytes_to_eoc) THEN [st |-> st, raised |-> FALSE]
        ELSE Skipped(skip_to_eoc(st))

\* What a _read_record has done when it comes to self.record_parser.parse:
\* the stream, the offset and the line it passes; raised when _skip_to_eoc
\* raised, returned when it has returned (None, None, offset) already.
BeforeParse(st, offset, line, raised, returned) ==
    [st |-> st, offset |-> offset, line |-> line, raised |-> raised,
     returned |-> returned]

\* RecordStream._read_record, up to the call of parse
RecordStream_read_record(st, offsets) ==
    LET \* offset = self.fh.tell() - len(line), after the blank lines
        Line(r) ==
            BeforeParse(r.st, IF offsets THEN PyInt(r.st.pos - Len(r.result)) ELSE PyNone,
                        r.result, FALSE, FALSE)
        Skipped(sk) ==
            IF sk.raised THEN BeforeParse(sk.st, PyNone, <<>>, TRUE, FALSE)
            ELSE Line(SkipBlankLines(sk.st))
    IN  Skipped(SkipRecord(st))

\* GzipRecordStream._read_record, up to the call of parse
GzipRecordStream_read_record(st, offsets) ==
    LET \* if not line: return None, None, offset
        Line(r, offset) == BeforeParse(r.st, offset, r.result, FALSE, r.result = <<>>)
        Skipped(sk) ==
            IF sk.raised THEN BeforeParse(sk.st, PyNone, <<>>, TRUE, FALSE)
            ELSE Line(SkipBlankLines(sk.st),
                      IF offsets THEN PyInt(sk.st.member_offset) ELSE PyNone)
    IN  Skipped(SkipRecord(st))

\* GzipFileStream._read_record, up to the call of parse
GzipFileStream_read_record(st, offsets) ==
    LET Line(r) == BeforeParse(r.st, PyNone, r.result, FALSE, FALSE)
        Skipped(sk) ==
            IF sk.raised THEN BeforeParse(sk.st, PyNone, <<>>, TRUE, FALSE)
            ELSE Line(SkipBlankLines(sk.st))
    IN  Skipped(SkipRecord(st))

\* self._read_record(offsets), by the class of the transport: the call of
\* parse and the return statement.  GzipRecordStream returns its own offset,
\* the other two the offset parse returns.
read_record(st, offsets) ==
    LET Return(b, p) ==
            ReadResult(p.st, IF st.kind = "record" THEN b.offset ELSE p.offset,
                       p.isrec, p.rec, p.errors, p.hang, p.raised)
        Parse(b) ==
            IF b.raised THEN ReadResult(b.st, PyNone, FALSE, NoRecord, PyNone, FALSE, TRUE)
            ELSE IF b.returned
            THEN ReadResult(b.st, PyNone, FALSE, NoRecord, b.offset, FALSE, FALSE)
            ELSE Return(b, record_parser_parse(b.st, b.offset, PyBytes(b.line)))
    IN  Parse(IF st.kind = "record" THEN GzipRecordStream_read_record(st, offsets)
              ELSE IF st.kind = "file" THEN GzipFileStream_read_record(st, offsets)
              ELSE RecordStream_read_record(st, offsets))

\* open_record_stream(record_class, file_handle, gzip=kind, offset=offset):
\* the file is at `offset` when the transport is built around it
open_record_stream(parser, kind, raw, offset) ==
    LET data == IF kind = "plain" THEN raw ELSE Gunzip(raw, offset).data
        st == NewStream(kind, raw, data)
    IN  [st EXCEPT !.parser = parser,
                   !.pos = IF kind = "plain" THEN offset ELSE 0]

\* RecordStream.seek and GzipRecordStream.seek.  GzipFile reads its file in
\* chunks larger than the model's files: before the first read a seek of the
\* raw file decides where decompression starts; after it the whole raw file is
\* already buffered, and what is read from the new position is decompressed
\* after the buffered data.  Setting fh._new_member has no effect: the reader
\* that GzipFile delegates to keeps its own flag.
seek(st, offset) ==
    IF st.kind = "record"
    THEN IF st.touched THEN [st EXCEPT !.data = st.data \o Gunzip(st.raw, offset).data]
         ELSE [st EXCEPT !.data = Gunzip(st.raw, offset).data]
    ELSE [st EXCEPT !.pos = offset]

\* ------------------------------------------- content and write_to

\* content_file.read(count) on a record's cursor: the RecordStream's bounded
\* read, a BytesIO's read, or AttributeError when content_file is None
cf_read(rec, st, count) ==
    IF rec.content_file.kind = "stream"
    THEN LET r == read(st, count) IN
         [rec |-> rec, st |-> r.st, result |-> r.result, raised |-> FALSE]
    ELSE IF rec.content_file.kind = "bytesio"
    THEN LET f == rec.content_file
             avail == Len(f.data) - f.pos
             k == IF IsNone(count) \/ count.n < 0 THEN avail ELSE Min(count.n, avail)
         IN  [rec |-> [rec EXCEPT !.content_file.pos = f.pos + k], st |-> st,
              result |-> SubSeq(f.data, f.pos + 1, f.pos + k), raised |-> FALSE]
    ELSE [rec |-> rec, st |-> st, result |-> <<>>, raised |-> TRUE]

\* content_file.readline(maxlen)
cf_readline(rec, st, maxlen) ==
    IF rec.content_file.kind = "stream"
    THEN LET r == readline(st, maxlen) IN
         [rec |-> rec, st |-> r.st, result |-> r.result, raised |-> FALSE]
    ELSE IF rec.content_file.kind = "bytesio"
    THEN LET f == rec.content_file
             whole == EndOfLine(f.data, f.pos) - f.pos
             k == IF IsNone(maxlen) \/ maxlen.n < 0 THEN whole ELSE Min(maxlen.n, whole)
         IN  [rec |-> [rec EXCEPT !.content_file.pos = f.pos + k], st |-> st,
              result |-> SubSeq(f.data, f.pos + 1, f.pos + k), raised |-> FALSE]
    ELSE [rec |-> rec, st |-> st, result |-> <<>>, raised |-> TRUE]

\* the content property: resolves _content from content_file on first use
content(rec, st) ==
    IF rec.content.resolved
    THEN [rec |-> rec, st |-> st, result |-> rec.content, raised |-> FALSE]
    ELSE
        LET \* finally: self.content_file = None
            Read(r, closed, pair) ==
                IF r.raised
                THEN [rec |-> closed, st |-> r.st, result |-> Unresolved, raised |-> TRUE]
                ELSE [rec |-> [closed EXCEPT !.content = pair], st |-> r.st,
                      result |-> pair, raised |-> FALSE]
            File(r) ==
                Read(r, [r.rec EXCEPT !.content_file = NoFile, !.content_file_valid = FALSE],
                     ContentPair(get_header(rec, CONTENT_TYPE), r.result))
        IN  File(cf_read(rec, st, PyNone))

\* A loop over the headers that writes them last to first.
RECURSIVE WriteHeadersReversed(_, _, _)
WriteHeadersReversed(headers, nl, all) ==
    IF headers = <<>> THEN <<>>
    ELSE
        LET k == headers[Len(headers)][1]
            v == headers[Len(headers)][2]
        IN  (IF all \/ k \notin {CONTENT_TYPE, CONTENT_LENGTH}
             THEN k \o <<":", SP>> \o v \o nl ELSE <<>>)
            \o WriteHeadersReversed(SubSeq(headers, 1, Len(headers) - 1), nl, all)

\* for k, v in self.headers: written unless content_file is None and k is
\* CONTENT_TYPE or CONTENT_LENGTH (compared as bytes, case-sensitively)
RECURSIVE WriteHeaders(_, _, _)
WriteHeaders(headers, nl, all) ==
    IF headers = <<>> THEN <<>>
    ELSE
        LET k == Head(headers)[1]
            v == Head(headers)[2]
        IN  (IF all \/ k \notin {CONTENT_TYPE, CONTENT_LENGTH}
             THEN k \o <<":", SP>> \o v \o nl ELSE <<>>)
            \o WriteHeaders(Tail(headers), nl, all)

\* A copy that stops after the first byte of the content.
CopyFirstByte(rec, st, acc) ==
    LET Buf(r) == [rec |-> r.rec, st |-> r.st, out |-> acc \o r.result]
    IN  Buf(cf_read(rec, st, PyInt(1)))

\* while True: buf = self.content_file.read(8192); if buf == b"": break
RECURSIVE CopyLoop(_, _, _)
CopyLoop(rec, st, acc) ==
    LET Buf(r) ==
            IF r.result = <<>> THEN [rec |-> r.rec, st |-> r.st, out |-> acc]
            ELSE CopyLoop(r.rec, r.st, acc \o r.result)
    IN  Buf(cf_read(rec, st, PyInt(8192)))

\* WarcRecord._write_to: the bytes written to out; raised when self.content
\* raises after the version line and the headers have been written
WarcRecord_write_to(rec, st, nl) ==
    LET Streamed(top, c) ==
            [rec |-> c.rec, st |-> c.st, out |-> top \o nl \o c.out \o nl \o nl,
             raised |-> FALSE]
        Buffered(top, c) ==
            IF c.raised THEN [rec |-> c.rec, st |-> c.st, out |-> top, raised |-> TRUE]
            ELSE [rec |-> c.rec, st |-> c.st,
                  out |-> top
                          \o (IF IsNone(c.result.type) \/ c.result.type.l = <<>> THEN <<>>
                              ELSE CONTENT_TYPE \o <<":", SP>> \o c.result.type.l \o nl)
                          \o CONTENT_LENGTH \o <<":", SP>> \o StrOfNat(Len(c.result.data)) \o nl
                          \o nl \o c.result.data \o nl \o nl,
                  raised |-> FALSE]
    IN  IF rec.content_file.kind # "None"
        THEN Streamed(rec.version \o nl \o WriteHeaders(rec.headers, nl, TRUE),
                      CopyLoop(rec, st, <<>>))
        ELSE Buffered(rec.version \o nl \o WriteHeaders(rec.headers, nl, FALSE),
                      content(rec, st))

\* ArchiveRecord.write_to(out, newline=b"\r\n", gzip)
write_to(rec, st, gzip) ==
    IF rec.content_file.kind # "None" /\ ~rec.content_file_valid
    THEN [rec |-> rec, st |-> st, out |-> <<>>, raised |-> TRUE]
    ELSE
        LET Out(w) ==
                [rec |-> IF w.rec.content_file.kind # "None" /\ ~w.raised
                         THEN [w.rec EXCEPT !.content_file_valid = FALSE] ELSE w.rec,
                 st |-> w.st,
                 out |-> IF gzip THEN GzipMember(w.out) ELSE w.out,
                 raised |-> w.raised]
        IN  Out(WarcRecord_write_to(rec, st, CRLF))

\* ------------------------------------------------------------ inputs

\* Bounds of the model
MaxCount == 1      \* read(n) and readline(n) are called with n in -1..MaxCount, or None
MaxOps == 2        \* calls the caller makes in one run, next(read_records) apart
MaxBuilt == 1      \* records the application builds in one run

V10 == <<"W", "A", "R", "C", "/", "1", ".", "0">> \o CRLF
LooksLikeRecord == V10 \o <<"X", ":", SP, "y">> \o CRLF \o CRLF
SixLines == <<"a", CR, LF, "b", CR, LF, "c", CR, LF, "d", CR, LF, "e", CR, LF, "f">>
TwoLines == <<"a", CR, LF, "b">>

\* the payloads of the model's records
Payloads == <<<<"h", "i">>, LooksLikeRecord, <<>>, <<"x", LF, LF, "y">>>>

TextPlain == <<"t", "/", "p">>
RecordId(i) == <<"<", Digits[i + 1], ">">>

\* a record the application builds from a (content-type, payload) pair
PairRecord(i, headers) ==
    WarcRecord(VERSION, headers, ContentPair(PyBytes(TextPlain), Payloads[i]), <<>>, NoFile)

\* a record the application builds from a content_file and a Content-Length header
FileRecord(i, headers) ==
    WarcRecord(VERSION,
               headers \o <<<<CONTENT_TYPE, TextPlain>>,
                            <<CONTENT_LENGTH, StrOfNat(Len(Payloads[i]))>>>>,
               Unresolved, <<>>, BytesIO(Payloads[i]))

FullHeaders(i) ==
    <<<<TYPE, <<"r", "e", "s", "o", "u", "r", "c", "e">>>>,
      <<ID, RecordId(i)>>,
      <<DATE, <<"2", "0", "2", "0", "Z">>>>,
      <<URL, <<"h", ":", "/", "/", "a", "/", Digits[i + 1]>>>>>>

\* the records the application may build
Templates ==
    {PairRecord(i, FullHeaders(i)) : i \in 1..Len(Payloads)}
    \cup {FileRecord(i, FullHeaders(i)) : i \in 1..Len(Payloads)}

\* the bytes write_to gives for a record with only a record id
Written(i) == write_to(PairRecord(i, <<<<ID, RecordId(i)>>>>), NewStream("plain", <<>>, <<>>), FALSE).out

\* a record whose Content-Length cannot be parsed, with its payload
BadLength(payload) ==
    V10 \o CONTENT_LENGTH \o <<":", SP, "x">> \o CRLF \o CRLF \o payload \o CRLF \o CRLF

Junk == <<"j", "u", "n", "k">> \o CRLF

\* an archive the model reads, and whether read_records is asked for offsets
Input(parser, kind, raw, offsets) ==
    [parser |-> parser, kind |-> kind, raw |-> raw, offsets |-> offsets]

\* the archives of the model, from the bytes w[i] of four written records
Archives(w) ==
    { Input("warc", "plain", w[1] \o w[2] \o w[3], TRUE),
      Input("warc", "plain", CRLF \o <<LF>> \o w[1] \o <<LF>> \o w[4], TRUE),
      Input("warc", "plain", Junk \o <<SP, "x">> \o w[1], TRUE),
      Input("warc", "plain", BadLength(TwoLines) \o w[1], TRUE),
      Input("warc", "plain", BadLength(SixLines) \o w[1], TRUE),
      Input("warc", "plain",
            <<"W", "A", "R", "C", "/", "2", ".", "0">> \o CRLF \o CRLF \o CRLF \o CRLF
            \o w[1], TRUE),
      Input("warc", "plain", <<>>, TRUE),
      Input("warc", "plain", w[1], FALSE),
      Input("mixed", "plain",
            w[1] \o <<"u", SP, "i", SP, "d", SP, "t", SP, "2", LF, "h", "i", LF>> \o w[3],
            TRUE),
      Input("warc", "record", GzipMember(w[1]) \o GzipMember(w[2]), TRUE),
      Input("warc", "record", <<>>, TRUE),
      Input("warc", "record", GzipMember(w[1]), FALSE),
      Input("warc", "file", GzipMember(w[1] \o w[4]), TRUE),
      Input("warc", "file", GzipMember(w[1]), FALSE) }

Inputs == Archives([i \in 1..Len(Payloads) |-> Written(i)])

Counts == {PyNone} \cup {PyInt(n) : n \in (0 - 1)..MaxCount}

\* ------------------------------------------------------------- state

VARIABLES
    stream,   \* the transport: the RecordStream and its file handle
    gen,      \* the read_records generator: its arguments and whether it has ended
    recs,     \* the records so far, yielded by the transport or built by the caller
    yields,   \* the tuples read_records has yielded, in order
    sink,     \* the bytes written to the output file
    nops,     \* calls the caller has made, next(read_records) apart
    hist,     \* history: seeks done, and whether a read was given a negative size
    last      \* the last call: its arguments, the stream before it, its outcome

vars == <<stream, gen, recs, yields, sink, nops, hist, last>>

\* a call: its arguments, the record and the stream before it, and its outcome
Call(op, i, count, rec0, st, result, raised) ==
    [op |-> op, rec |-> i, count |-> count, rec0 |-> rec0,
     eoc0 |-> st.bytes_to_eoc, pos0 |-> st.pos, result |-> result, raised |-> raised]

\* the state after open_record_stream and the call of read_records
Opened(in) ==
    /\ stream = open_record_stream(in.parser, in.kind, in.raw, 0)
    /\ gen = [offsets |-> in.offsets, done |-> FALSE, hung |-> FALSE, raised |-> FALSE,
              seeked |-> PyNone]
    /\ recs = <<>>
    /\ yields = <<>>
    /\ sink = <<>>
    /\ nops = 0
    /\ hist = [seeks |-> 0, negative |-> FALSE]
    /\ last = Call("open", 0, PyNone, NoRecord, stream, <<>>, FALSE)

Init == \E in \in Inputs : Opened(in)

\* the writing application opens no archive
InitW == Opened(Input("warc", "plain", <<>>, TRUE))
\* The program is single-threaded: while a call does not return, nothing else runs.
Running == ~gen.hung

\* next(read_records(limit=None, offsets)): one turn of the generator's loop
ReadRecords ==
    /\ Running
    /\ ~gen.done
    /\ \E r \in {read_record(stream, gen.offsets)} :
       /\ stream' = r.st
       /\ gen' = [gen EXCEPT !.done = r.hang \/ r.raised \/ ~r.isrec,
                             !.hung = r.hang, !.raised = r.raised, !.seeked = PyNone]
       /\ recs' = IF r.isrec /\ ~r.hang /\ ~r.raised THEN Append(recs, r.rec) ELSE recs
       /\ yields' = IF r.hang \/ r.raised THEN yields
                    ELSE Append(yields,
                            [offset |-> r.first, isrec |-> r.isrec,
                             rec |-> IF r.isrec THEN Len(recs) + 1 ELSE 0,
                             errors |-> r.third,
                             record |-> r.rec,
                             at |-> r.st.pos,
                             limit |-> r.st.bytes_to_eoc,
                             seeked |-> gen.seeked])
       /\ last' = Call("read_records", 0, PyNone, NoRecord, stream, <<>>, r.raised)
    /\ UNCHANGED <<sink, nops, hist>>

\* recs[i].content_file.read(count)
CfRead(i, count) ==
    /\ Running
    /\ nops < MaxOps
    /\ \E r \in {cf_read(recs[i], stream, count)} :
       /\ stream' = r.st
       /\ recs' = [recs EXCEPT ![i] = r.rec]
       /\ last' = Call("read", i, count, recs[i], stream, r.result, r.raised)
    /\ nops' = nops + 1
    /\ hist' = [hist EXCEPT !.negative = @ \/ (IsInt(count) /\ count.n < 0)]
    /\ UNCHANGED <<gen, yields, sink>>

\* recs[i].content_file.readline(count)
CfReadline(i, count) ==
    /\ Running
    /\ nops < MaxOps
    /\ \E r \in {cf_readline(recs[i], stream, count)} :
       /\ stream' = r.st
       /\ recs' = [recs EXCEPT ![i] = r.rec]
       /\ last' = Call("readline", i, count, recs[i], stream, r.result, r.raised)
    /\ nops' = nops + 1
    /\ hist' = [hist EXCEPT !.negative = @ \/ (IsInt(count) /\ count.n < 0)]
    /\ UNCHANGED <<gen, yields, sink>>

\* recs[i].content
Content(i) ==
    /\ Running
    /\ nops < MaxOps
    /\ \E r \in {content(recs[i], stream)} :
       /\ stream' = r.st
       /\ recs' = [recs EXCEPT ![i] = r.rec]
       /\ last' = Call("content", i, PyNone, recs[i], stream, r.result.data, r.raised)
    /\ nops' = nops + 1
    /\ UNCHANGED <<gen, yields, sink, hist>>

\* recs[i].write_to(out, gzip=gzip)
WriteTo(i, gzip) ==
    /\ Running
    /\ nops < MaxOps
    /\ \E r \in {write_to(recs[i], stream, gzip)} :
       /\ stream' = r.st
       /\ recs' = [recs EXCEPT ![i] = r.rec]
       /\ sink' = sink \o r.out
       /\ last' = Call("write_to", i, PyInt(IF gzip THEN 1 ELSE 0), recs[i], stream, r.out,
                       r.raised)
    /\ nops' = nops + 1
    /\ UNCHANGED <<gen, yields, hist>>

\* stream.seek(offset), to an offset that read_records yielded
Seek(offset) ==
    /\ Running
    /\ nops < MaxOps
    /\ stream.kind # "file"
    /\ stream' = seek(stream, offset)
    /\ gen' = [gen EXCEPT !.seeked = PyInt(offset)]
    /\ nops' = nops + 1
    /\ hist' = [hist EXCEPT !.seeks = @ + 1]
    /\ last' = Call("seek", 0, PyInt(offset), NoRecord, stream, <<>>, FALSE)
    /\ UNCHANGED <<recs, yields, sink>>

\* The writing application: it builds a record to write.  It reads no archive
\* (a built record never touches the transport).
Build(t) ==
    /\ Len(recs) < MaxBuilt
    /\ recs' = Append(recs, t)
    /\ last' = Call("build", Len(recs) + 1, PyNone, NoRecord, stream, <<>>, FALSE)
    /\ UNCHANGED <<stream, gen, yields, sink, nops, hist>>

Next ==
    \/ ReadRecords
    \/ \E i \in 1..Len(recs), count \in Counts : CfRead(i, count)
    \/ \E i \in 1..Len(recs), count \in Counts : CfReadline(i, count)
    \/ \E i \in 1..Len(recs) : Content(i)
    \/ \E i \in 1..Len(recs) : WriteTo(i, FALSE)
    \/ \E k \in 1..Len(yields) : IsInt(yields[k].offset) /\ Seek(yields[k].offset.n)

Spec == Init /\ [][Next]_vars

\* the writing application: it builds records, reads them and writes them
NextW ==
    \/ \E t \in Templates : Build(t)
    \/ \E i \in 1..Len(recs), count \in Counts : CfRead(i, count)
    \/ \E i \in 1..Len(recs), count \in Counts : CfReadline(i, count)
    \/ \E i \in 1..Len(recs) : Content(i)
    \/ \E i \in 1..Len(recs), gzip \in BOOLEAN : WriteTo(i, gzip)

SpecW == InitW /\ [][NextW]_vars

\* ------------------------------------------------------------- claims

\* the tuple of yields that gave recs[i], or 0 for a record that was built
YieldOf(i) ==
    IF \E k \in 1..Len(yields) : yields[k].rec = i
    THEN CHOOSE k \in 1..Len(yields) : yields[k].rec = i
    ELSE 0

\* the payload of the record of yields[k]: the declared length, from where
\* parse left the stream
PayloadOf(k) ==
    SubSeq(stream.data, yields[k].at + 1, yields[k].at + yields[k].limit.n)

\* The last call was on the record of yields[k] while the stream still stood
\* at the start of its payload with the whole declared length to go.
OnFreshRecord(k) ==
    /\ k > 0
    /\ IsInt(yields[k].limit) /\ yields[k].limit.n >= 0
    /\ last.pos0 = yields[k].at
    /\ last.eoc0 = yields[k].limit
    /\ ~last.rec0.content.resolved

\* C1: resolving the content of a parsed record with declared length L >= 0,
\* followed in the stream by its terminator and more, returns exactly the L
\* payload bytes and leaves the stream at the end of the payload.
C1_ContentReturnsPayload ==
    LET k == YieldOf(last.rec) IN
    (/\ last.op = "content"
     /\ OnFreshRecord(k)
     /\ yields[k].at + yields[k].limit.n < Len(stream.data))
    => /\ ~last.raised
       /\ last.result = PayloadOf(k)
       /\ Len(last.result) = yields[k].limit.n
       /\ stream.pos = yields[k].at + yields[k].limit.n
       /\ recs[last.rec].content.data = PayloadOf(k)

\* C1's case: content was resolved on the record whose 18-byte payload looks
\* like a record itself, with the next record behind it.
C1_Witness ==
    /\ last.op = "content"
    /\ OnFreshRecord(YieldOf(last.rec))
    /\ last.result = LooksLikeRecord
    /\ stream.pos < Len(stream.data)

\* C2: while the counter is set to c, read(n) and readline(n), for any n or
\* none, consume at most c bytes and leave the counter at c minus the bytes
\* consumed: it is never negative, and at 0 every read returns empty and the
\* position does not move.
C2_ReadsStayInsideCounter ==
    (/\ last.op \in {"read", "readline"}
     /\ last.rec0.content_file.kind = "stream"
     /\ IsInt(last.eoc0))
    => /\ Len(last.result) <= last.eoc0.n
       /\ stream.pos = last.pos0 + Len(last.result)
       /\ stream.bytes_to_eoc = PyInt(last.eoc0.n - Len(last.result))
       /\ stream.bytes_to_eoc.n >= 0
       /\ (last.eoc0.n = 0 => last.result = <<>> /\ stream.pos = last.pos0)

\* the files of well-formed records among the archives, with the numbers of
\* their records in file order
WellFormedFiles(w) ==
    { [kind |-> "plain", raw |-> w[1] \o w[2] \o w[3], ids |-> <<1, 2, 3>>],
      [kind |-> "plain", raw |-> w[1], ids |-> <<1>>],
      [kind |-> "record", raw |-> GzipMember(w[1]) \o GzipMember(w[2]), ids |-> <<1, 2>>],
      [kind |-> "record", raw |-> GzipMember(w[1]), ids |-> <<1>>],
      [kind |-> "file", raw |-> GzipMember(w[1] \o w[4]), ids |-> <<1, 4>>],
      [kind |-> "file", raw |-> GzipMember(w[1]), ids |-> <<1>>] }

\* yields[k] is the record that was written as Written(i)
IsWritten(k, i) ==
    /\ yields[k].isrec
    /\ get_header(yields[k].record, ID) = PyBytes(RecordId(i))
    /\ yields[k].limit = PyInt(Len(Payloads[i]))
    /\ PayloadOf(k) = Payloads[i]

\* what the caller got so far is the file's records in order, then the
\* terminal tuple
YieldsFollow(ids) ==
    /\ ~gen.raised /\ ~gen.hung
    /\ Len(yields) <= Len(ids) + 1
    /\ \A k \in 1..Len(yields) :
          IF k <= Len(ids) THEN IsWritten(k, ids[k]) ELSE ~yields[k].isrec

\* C3: for a file of N well-formed records read_records(limit=None) yields
\* those N records in file order and then one terminal tuple with no record,
\* whatever the caller did with each record's content before asking for the
\* next one.
C3_AllRecordsWhateverWasRead ==
    hist.seeks = 0 =>
        \A f \in WellFormedFiles([i \in 1..Len(Payloads) |-> Written(i)]) :
            (stream.kind = f.kind /\ stream.raw = f.raw) => YieldsFollow(f.ids)

\* The payload of the record of the last call was consumed through its
\* cursor before the call: streamed out by write_to, or read to the end by
\* the caller (a BytesIO at its end, or the transport's current record with
\* its counter down to 0).
ConsumedBefore ==
    LET rec0 == last.rec0
        k == YieldOf(last.rec)
    IN  /\ ~rec0.content.resolved
        /\ \/ rec0.content_file.kind # "None" /\ ~rec0.content_file_valid
           \/ /\ rec0.content_file.kind = "bytesio"
              /\ rec0.content_file.data # <<>>
              /\ rec0.content_file.pos = Len(rec0.content_file.data)
           \/ /\ rec0.content_file.kind = "stream"
              /\ k > 0
              /\ IsInt(yields[k].limit) /\ yields[k].limit.n > 0
              /\ last.eoc0 = PyInt(0)
              /\ last.pos0 = yields[k].at + yields[k].limit.n

\* C4: once a record's payload has been consumed through its cursor,
\* resolving its content fails with an error and returns no payload.
C4_ContentFailsAfterConsumption ==
    (last.op = "content" /\ ConsumedBefore) => last.raised

\* a stream that a built record never touches
NoStream == NewStream("plain", <<>>, <<>>)

\* the record the WARC parser reads back from the bytes of one write_to,
\* with its content resolved
ReadBack(out, gzip) ==
    LET r == read_record(
                 open_record_stream("warc", IF gzip THEN "record" ELSE "plain", out, 0),
                 FALSE)
        c == content(r.rec, r.st)
    IN  [ok |-> r.isrec /\ ~r.raised /\ ~r.hang /\ ~c.raised,
         rec |-> c.rec,
         rest |-> SubSeq(c.st.data, c.st.pos + 1, Len(c.st.data))]

NotContentHeader(h) == h[1] \notin {CONTENT_TYPE, CONTENT_LENGTH}

\* the content bytes and the content type of a record that was built
BuiltData(rec) ==
    IF rec.content.resolved THEN rec.content.data ELSE rec.content_file.data
BuiltType(rec) ==
    IF rec.content.resolved THEN rec.content.type ELSE get_header(rec, CONTENT_TYPE)

\* rec is equal to the original in header order, content bytes, content
\* type, and declared type, url and date
SameRecord(rec, orig) ==
    /\ rec.errors = <<>>
    /\ rec.version = orig.version
    /\ SelectSeq(rec.headers, NotContentHeader) = SelectSeq(orig.headers, NotContentHeader)
    /\ rec.content.resolved
    /\ rec.content.data = BuiltData(orig)
    /\ rec.content.type = BuiltType(orig)
    /\ get_header(rec, CONTENT_TYPE) = BuiltType(orig)
    /\ get_header(rec, CONTENT_LENGTH) = PyBytes(StrOfNat(Len(BuiltData(orig))))
    /\ \A name \in {TYPE, URL, DATE, ID} : get_header(rec, name) = get_header(orig, name)

\* The record of the last call was written whole: built from a pair, or from
\* a content_file that nobody had read from.
WroteBuilt ==
    /\ last.op = "write_to"
    /\ ~last.raised
    /\ YieldOf(last.rec) = 0
    /\ last.rec0.content.resolved \/ last.rec0.content_file.pos = 0

\* C5: a well-formed record, built from a (content-type, payload) pair or
\* from a content_file and a Content-Length header, that is written, read
\* back, written again and read back again, is equal to the original in
\* header order, content bytes, and declared type, url and date.
C5_RoundTrip ==
    WroteBuilt =>
        LET gzip == last.count.n = 1
            once == ReadBack(last.result, gzip)
            twice == ReadBack(write_to(once.rec, NoStream, gzip).out, gzip)
        IN  /\ once.ok /\ SameRecord(once.rec, last.rec0)
            /\ twice.ok /\ SameRecord(twice.rec, last.rec0)
            /\ twice.rec = once.rec

\* C5's case: a record built from a content_file whose payload looks like a
\* record was written, and one built from a pair could have been.
C5_Witness ==
    /\ WroteBuilt
    /\ last.rec0.content_file.kind = "bytesio"
    /\ last.rec0.content_file.data = LooksLikeRecord
    /\ ReadBack(last.result, last.count.n = 1).ok
    /\ PairRecord(2, FullHeaders(2)) \in Templates

\* the byte position in the outer file where the k-th gzip member starts
MemberStart(raw, k) ==
    LET ends == {j \in 1..Len(raw) : raw[j] = GZ_TRAILER} IN
    IF k = 1 THEN 0
    ELSE CHOOSE j \in ends : Cardinality({e \in ends : e <= j}) = k - 1

\* the record read by a transport opened afresh on the same file and sought
\* to offset, with its payload
FreshAt(offset) ==
    LET r == read_record(
                 seek(open_record_stream(stream.parser, stream.kind, stream.raw, 0), offset),
                 FALSE)
    IN  [isrec |-> r.isrec /\ ~r.raised /\ ~r.hang,
         headers |-> r.rec.headers,
         payload |-> content(r.rec, r.st).result.data]

\* C6: on the gzip-per-record transport the offset yielded with the k-th
\* record is the position in the outer file where its member starts, and a
\* transport opened afresh and sought there reads the same record.
C6_GzipOffsetIsMemberStart ==
    (stream.kind = "record" /\ gen.offsets /\ hist.seeks = 0 /\ ~hist.negative) =>
        \A k \in 1..Len(yields) :
            yields[k].isrec =>
                /\ yields[k].offset = PyInt(MemberStart(stream.raw, k))
                /\ FreshAt(yields[k].offset.n).isrec
                /\ FreshAt(yields[k].offset.n).headers = yields[k].record.headers
                /\ FreshAt(yields[k].offset.n).payload = PayloadOf(k)

\* where the first non-blank line at or after position from starts
FirstNonBlank(from) ==
    LET r == SkipBlankLines([stream EXCEPT !.pos = from]) IN r.st.pos - Len(r.result)

\* where the payload of the record of yields[k] ends
PayloadEnd(k) == yields[k].at + yields[k].limit.n

\* C7: on the plain transport with offsets the offset yielded with a record
\* is where the record's first non-blank line starts, and after a seek to an
\* offset that was yielded (or an open at it) the next record read is the
\* record that was yielded with that offset, headers and content.
C7_PlainOffsetAndSeek ==
    (stream.kind = "plain" /\ gen.offsets /\ ~hist.negative) =>
        \A k \in 1..Len(yields) :
            yields[k].isrec =>
                /\ hist.seeks = 0 =>
                      yields[k].offset =
                          PyInt(FirstNonBlank(IF k = 1 THEN 0 ELSE PayloadEnd(k - 1)))
                /\ FreshAt(yields[k].offset.n).isrec
                /\ FreshAt(yields[k].offset.n).headers = yields[k].record.headers
                /\ FreshAt(yields[k].offset.n).payload = PayloadOf(k)
                /\ IsInt(yields[k].seeked) =>
                      \A j \in 1..(k - 1) :
                          (yields[j].isrec /\ yields[j].offset = yields[k].seeked) =>
                              /\ yields[k].offset = yields[j].offset
                              /\ yields[k].record.headers = yields[j].record.headers
                              /\ PayloadOf(k) = PayloadOf(j)

\* the lines of s, as readline gives them
RECURSIVE LinesOf(_)
LinesOf(s) ==
    IF s = <<>> THEN <<>>
    ELSE <<Take(s, EndOfLine(s, 0))>> \o LinesOf(Drop(s, EndOfLine(s, 0)))

NotBlank(line) == ~nl_rx(line)

\* the ("ignored line", line) errors of the lines of s that are not blank
RECURSIVE Ignored(_)
Ignored(lines) ==
    IF lines = <<>> THEN <<>>
    ELSE <<<<"ignored line", Head(lines)>>>> \o Ignored(Tail(lines))

IgnoredOf(payload) == Ignored(SelectSeq(LinesOf(payload \o CRLF \o CRLF), NotBlank))

\* the payloads behind the unparsable Content-Length in the archives
CorruptPayloads == {TwoLines, SixLines}

\* the transport reads the file of a record with an unparsable
\* Content-Length and this payload, followed by a valid record
CorruptThenValid(payload) ==
    /\ stream.kind = "plain"
    /\ stream.raw = BadLength(payload) \o Written(1)

\* the corrupt record was yielded, with the error in its own error list
CorruptYielded ==
    Len(yields) >= 1 =>
        /\ yields[1].isrec
        /\ yields[1].errors = PyTuple(<<>>)
        /\ yields[1].record.errors = <<<<"invalid header", CONTENT_LENGTH, <<"x">>>>>>
        /\ yields[1].limit = PyInt(0)

C9_ParseReturnShape ==
    (last.op = "read_records" /\ IsNone(last.eoc0)) =>
        /\ ~last.raised
        /\ ~gen.hung
        /\ LET y == yields[Len(yields)] IN
           IF y.isrec THEN y.errors.tag \in {"list", "tuple"} /\ y.errors.l = <<>>
           ELSE stream.kind # "record" => y.errors.tag \in {"list", "tuple"}

\* C10: in every tuple (offset, record, errors) that read_records yields,
\* on each of the three transports, either there is a record and errors is
\* empty, or there is no record and errors is a list of diagnostics, which
\* is empty at a clean end of input; the offset, or None, comes first.
C10_YieldShape ==
    \A k \in 1..Len(yields) :
        /\ yields[k].errors.tag \in {"list", "tuple"}
        /\ yields[k].isrec => yields[k].errors.l = <<>>
        /\ yields[k].offset.tag = IF gen.offsets /\ stream.kind # "file" THEN "int" ELSE "None"
        /\ (~yields[k].isrec /\ stream.pos = Len(stream.data)
            /\ \A j \in 1..(k - 1) : yields[j].record.errors = <<>>)
           => yields[k].errors.l = <<>>

\* ------------------------------------------------ the parser's inputs

MaxJunk == 7       \* lines before the version line, at most

\* n copies of s
RECURSIVE Rep(_, _)
Rep(s, n) == IF n = 0 THEN <<>> ELSE s \o Rep(s, n - 1)

\* lines that are not blank and hold no version: plain text, a line that
\* starts with a carriage return, a line of one space
JunkLineKinds == {<<"j", CR, LF>>, <<CR, "x", LF>>, <<SP, CR, LF>>}

\* n such lines, blank lines between them or not, a written record behind
\* them or not
JunkFile(line, n, blanks, followed) ==
    Rep(line \o (IF blanks THEN CRLF \o <<LF>> ELSE <<>>), n)
    \o (IF followed THEN Written(1) ELSE <<>>)

JunkFiles ==
    {JunkFile(line, n, blanks, followed) :
        line \in JunkLineKinds, n \in 0..MaxJunk, blanks \in BOOLEAN, followed \in BOOLEAN}

\* what a file may hold between "Content-Length:" and the end of the line
LengthTexts ==
    {<<SP, "0">>, <<SP, "2">>, <<SP, "9">>, <<SP, "x">>, <<SP, "-", "1">>, <<SP, "+", "2">>,
     <<SP, "1", "_", "0">>, <<SP>>, <<>>, <<SP, "2", SP>>}

\* a record with this Content-Length and the payload b"hi"
LengthFile(text) ==
    V10 \o CONTENT_LENGTH \o <<":">> \o text \o CRLF \o CRLF \o <<"h", "i">> \o CRLF \o CRLF

LengthFiles == {LengthFile(text) : text \in LengthTexts}

\* the files the parser is run on
ParserFiles == JunkFiles \cup LengthFiles

InitP == \E raw \in ParserFiles : Opened(Input("warc", "plain", raw, TRUE))

\* stream._skip_to_eoc(), called on the transport as _read_record calls it
SkipToEoc ==
    /\ Running
    /\ nops < MaxOps
    /\ \E r \in {skip_to_eoc(stream)} :
       /\ stream' = r.st
       /\ last' = Call("skip_to_eoc", 0, PyNone, NoRecord, stream, <<>>, r.raised)
    /\ nops' = nops + 1
    /\ UNCHANGED <<gen, recs, yields, sink, hist>>

\* an application that iterates, reads payloads and skips to their ends
NextP ==
    \/ ReadRecords
    \/ \E i \in 1..Len(recs), count \in Counts : CfRead(i, count)
    \/ SkipToEoc

SpecP == InitP /\ [][NextP]_vars

\* the ("ignored line", line) errors of n copies of this line
IgnoredTimes(line, n) == [i \in 1..n |-> <<"ignored line", line>>]

\* C11 for the file of n copies of this line
VersionSeekOn(line, n, followed) ==
    /\ ~gen.raised /\ ~gen.hung
    /\ Len(yields) >= 1 =>
          IF n > bad_lines
          THEN /\ ~yields[1].isrec
               /\ yields[1].errors =
                     PyList(IgnoredTimes(line, bad_lines + 1)
                            \o <<<<"too many errors, giving up hope">>>>)
               /\ gen.done /\ Len(yields) = 1
          ELSE IF followed
          THEN /\ yields[1].isrec
               /\ yields[1].errors = PyTuple(<<>>)
               /\ yields[1].record.errors = IgnoredTimes(line, n)
               /\ yields[1].record.headers[1] = <<ID, RecordId(1)>>
          ELSE /\ ~yields[1].isrec
               /\ gen.done /\ Len(yields) = 1

\* C11: in search of a version line, parse tolerates up to bad_lines lines
\* that are not blank and do not match the version pattern: when a version
\* line follows, the record is returned with one "ignored line" error for
\* each of them; the line after the bad_lines-th makes it return no record
\* and the errors so far with "too many errors, giving up hope" at the end,
\* and read_records stops there.  Blank lines between them are not counted.
C11_VersionSeek ==
    \A line \in JunkLineKinds, n \in 0..MaxJunk, blanks \in BOOLEAN, followed \in BOOLEAN :
        (stream.kind = "plain" /\ stream.raw = JunkFile(line, n, blanks, followed)
         /\ hist.seeks = 0 /\ ~hist.negative)
        => VersionSeekOn(line, n, followed)

\* the value is an unsigned decimal integer: digits and nothing else
IsUnsigned(value) == value # <<>> /\ \A i \in 1..Len(value) : IsDigit(value[i])

\* the record of the first tuple has this error in its own list
HasError(e) == \E i \in 1..Len(yields[1].record.errors) : yields[1].record.errors[i] = e

\* C12: for every Content-Length header value, after parse has returned the
\* record, the limit bound to the payload cursor (bytes_to_eoc) is an integer
\* that is not negative: the declared value when that is an unsigned decimal
\* integer, and otherwise 0, with an "invalid header" error in the record's
\* own error list.
C12_LimitIsDeclaredOrZero ==
    \A text \in LengthTexts :
        (stream.kind = "plain" /\ stream.raw = LengthFile(text) /\ Len(yields) >= 1) =>
            /\ yields[1].isrec
            /\ IsInt(yields[1].limit)
            /\ yields[1].limit.n >= 0
            /\ IF IsUnsigned(Strip(text))
               THEN /\ yields[1].limit.n = PyIntOf(Strip(text)).val
                    /\ ~HasError(<<"invalid header", CONTENT_LENGTH, Strip(text)>>)
               ELSE /\ yields[1].limit.n = 0
                    /\ HasError(<<"invalid header", CONTENT_LENGTH, Strip(text)>>)

\* C13: _skip_to_eoc with the counter at c consumes exactly c bytes of the
\* source and leaves the counter at 0 when c bytes or more are left; it
\* raises when fewer than c bytes are left; with the counter unset it raises
\* and consumes nothing.
C13_SkipToEoc ==
    last.op = "skip_to_eoc" =>
        IF IsNone(last.eoc0)
        THEN last.raised /\ stream.pos = last.pos0 /\ IsNone(stream.bytes_to_eoc)
        ELSE IF Len(stream.data) - last.pos0 >= last.eoc0.n
        THEN /\ ~last.raised
             /\ stream.pos = last.pos0 + last.eoc0.n
             /\ stream.bytes_to_eoc = PyInt(0)
        ELSE last.raised

\* ------------------------------------- content_type and content_length

\* the content_type property: the Content-Type header of a record whose
\* _content is None, when it has one; else self.content[0]
content_type(rec, st) ==
    LET First(c) == [rec |-> c.rec, st |-> c.st, result |-> c.result.type, raised |-> c.raised]
    IN  IF ~rec.content.resolved /\ ~IsNone(get_header(rec, CONTENT_TYPE))
        THEN [rec |-> rec, st |-> st, result |-> get_header(rec, CONTENT_TYPE), raised |-> FALSE]
        ELSE First(content(rec, st))

\* A content_length that never looks at the headers: len(self.content[1]).
content_length_eager(rec, st) ==
    LET Second(c) ==
            [rec |-> c.rec, st |-> c.st, result |-> PyInt(Len(c.result.data)), raised |-> c.raised]
    IN  Second(content(rec, st))

\* the content_length property: int() of the Content-Length header of a
\* record whose _content is None, when it has one (ValueError is raised);
\* else len(self.content[1])
content_length(rec, st) ==
    LET Second(c) ==
            [rec |-> c.rec, st |-> c.st, result |-> PyInt(Len(c.result.data)), raised |-> c.raised]
        Parsed(v) ==
            [rec |-> rec, st |-> st, result |-> IF v.ok THEN PyInt(v.val) ELSE PyNone,
             raised |-> ~v.ok]
    IN  IF ~rec.content.resolved /\ ~IsNone(get_header(rec, CONTENT_LENGTH))
        THEN Parsed(PyIntOf(get_header(rec, CONTENT_LENGTH).l))
        ELSE Second(content(rec, st))

\* recs[i].content_type
ContentType(i) ==
    /\ Running
    /\ nops < MaxOps
    /\ \E r \in {content_type(recs[i], stream)} :
       /\ stream' = r.st
       /\ recs' = [recs EXCEPT ![i] = r.rec]
       /\ last' = Call("content_type", i, PyNone, recs[i], stream, r.result, r.raised)
    /\ nops' = nops + 1
    /\ UNCHANGED <<gen, yields, sink, hist>>

\* recs[i].content_length
ContentLength(i) ==
    /\ Running
    /\ nops < MaxOps
    /\ \E r \in {content_length(recs[i], stream)} :
       /\ stream' = r.st
       /\ recs' = [recs EXCEPT ![i] = r.rec]
       /\ last' = Call("content_length", i, PyNone, recs[i], stream, r.result, r.raised)
    /\ nops' = nops + 1
    /\ UNCHANGED <<gen, yields, sink, hist>>

\* a record that was written without a Content-Type, and one whose file
\* holds neither Content-Type nor Content-Length
NoTypeRecord == WarcRecord(VERSION, <<<<ID, RecordId(5)>>>>, ContentPair(PyNone, <<"h", "i">>), <<>>, NoFile)
NoTypeFile == write_to(NoTypeRecord, NewStream("plain", <<>>, <<>>), FALSE).out
NoLengthFile == V10 \o ID \o <<":", SP>> \o RecordId(6) \o CRLF \o CRLF \o CRLF \o CRLF

\* the archives whose records the application asks for their properties
RecordInputs ==
    { Input("warc", "plain", Written(1) \o Written(2), TRUE),
      Input("warc", "plain", NoTypeFile \o Written(1), TRUE),
      Input("warc", "plain", NoLengthFile \o Written(1), TRUE),
      Input("warc", "plain", BadLength(TwoLines) \o Written(1), TRUE),
      Input("warc", "record", GzipMember(Written(1)) \o GzipMember(Written(4)), TRUE),
      Input("warc", "plain", <<>>, TRUE) }

InitR == \E in \in RecordInputs : Opened(in)

\* an application that iterates or builds a record, and uses the records
NextR ==
    \/ ReadRecords
    \/ \E t \in Templates : stream.raw = <<>> /\ Build(t)
    \/ \E i \in 1..Len(recs) : Content(i)
    \/ \E i \in 1..Len(recs) : ContentType(i)
    \/ \E i \in 1..Len(recs) : ContentLength(i)
    \/ \E i \in 1..Len(recs) : WriteTo(i, FALSE)
    \/ \E i \in 1..Len(recs) : CfRead(i, PyNone)

SpecR == InitR /\ [][NextR]_vars

\* The state of a record's content: Resolved when _content is set,
\* Unresolved when it is not and content_file may be read, Consumed when it
\* is not and content_file has been used up by write_to.
ContentState(rec) ==
    IF rec.content.resolved THEN "Resolved"
    ELSE IF rec.content_file_valid THEN "Unresolved"
    ELSE "Consumed"

\* C14: a record's content moves only from Unresolved to Resolved or from
\* Unresolved to Consumed.  Once content is resolved, content_file is None,
\* the pair stays what it is, content returns it again and reads nothing
\* from the stream; a consumed record stays consumed; no operation brings a
\* record back to Unresolved.
C14_ContentMovesForward ==
    [][\A i \in 1..Len(recs) :
          /\ ContentState(recs[i]) = "Resolved" =>
                /\ recs[i].content_file = NoFile
                /\ recs'[i].content = recs[i].content
                /\ (last'.rec = i /\ last'.op = "content") =>
                      /\ stream' = stream
                      /\ ~last'.raised
                      /\ last'.result = recs[i].content.data
          /\ ContentState(recs[i]) = "Consumed" => ContentState(recs'[i]) = "Consumed"
          /\ ContentState(recs'[i]) = "Unresolved" => ContentState(recs[i]) = "Unresolved"
      ]_vars

\* the last call asked an unresolved record for content_type or content_length
AskedUnresolved ==
    /\ last.op \in {"content_type", "content_length"}
    /\ ContentState(last.rec0) = "Unresolved"

\* the header that the property of the last call looks for
AskedHeader == IF last.op = "content_type" THEN CONTENT_TYPE ELSE CONTENT_LENGTH

\* the last call read nothing and left the record as it was
ReadNothing ==
    /\ stream.pos = last.pos0
    /\ stream.bytes_to_eoc = last.eoc0
    /\ recs[last.rec] = last.rec0

\* C15 as claimed: asking an unresolved record for content_length or
\* content_type never reads payload bytes: the stream position and the
\* counter are what they were, and the record is still unresolved.
C15_Original == AskedUnresolved => ReadNothing

\* C15, corrected: asking an unresolved record for content_length or
\* content_type reads nothing and leaves the record unresolved when the
\* record has the Content-Length or Content-Type header the property looks
\* for; when it has not, the property resolves the content: content_file is
\* read to the limit and set to None, and the record is resolved.
C15_PropertiesReadOnlyWithoutHeader ==
    AskedUnresolved =>
        IF ~IsNone(get_header(last.rec0, AskedHeader))
        THEN ReadNothing
        ELSE /\ ~last.raised
             /\ ContentState(recs[last.rec]) = "Resolved"
             /\ recs[last.rec].content_file = NoFile
             /\ last.rec0.content_file.kind = "stream" =>
                   /\ stream.pos = last.pos0 + Len(recs[last.rec].content.data)
                   /\ IsInt(last.eoc0) =>
                         stream.bytes_to_eoc = PyInt(last.eoc0.n - Len(recs[last.rec].content.data))

\* C15's case: a record just parsed, with a payload ahead in the stream, was
\* asked for its content_length and has the header.
C15_Witness ==
    /\ AskedUnresolved
    /\ last.op = "content_length"
    /\ ~last.raised
    /\ last.rec0.content_file.kind = "stream"
    /\ IsInt(last.eoc0) /\ last.eoc0.n > 0
    /\ last.result = last.eoc0

\* C16: for a record the parser returned, content_length asked while the
\* content is unresolved is the integer value of the declared Content-Length
\* header and is the limit the parser bound to the payload cursor;
\* content_length asked after the content is resolved is the byte length of
\* the resolved payload.
C16_ContentLengthIsDeclared ==
    (last.op = "content_length" /\ YieldOf(last.rec) > 0) =>
        IF last.rec0.content.resolved
        THEN /\ ~last.raised
             /\ last.result = PyInt(Len(last.rec0.content.data))
        ELSE ~IsNone(get_header(last.rec0, CONTENT_LENGTH)) =>
                /\ ~last.raised
                /\ last.result = yields[YieldOf(last.rec)].limit
                /\ last.result = PyInt(PyIntOf(get_header(last.rec0, CONTENT_LENGTH).l).val)

\* The last call read the content or the content_file of a parsed record
\* whose content was unresolved, after the transport had yielded a later
\* record.
ReadBehindTransport ==
    /\ last.op \in {"read", "readline", "content"}
    /\ YieldOf(last.rec) > 0
    /\ ~last.rec0.content.resolved
    /\ \E k \in (YieldOf(last.rec) + 1)..Len(yields) : yields[k].isrec

\* C17: once the transport has been advanced to record k+1, record k's
\* cursor is invalid: reading record k's content or content_file delivers no
\* bytes of record k+1's payload, and leaves the stream position and the
\* counter bound to record k+1's payload as they were.
C17_OneLiveContent ==
    ReadBehindTransport =>
        /\ stream.pos = last.pos0
        /\ stream.bytes_to_eoc = last.eoc0
        /\ last.raised \/ last.result = <<>>

\* ------------------------------------------------------------ validate

WARCINFO == <<"w", "a", "r", "c", "i", "n", "f", "o">>
RESPONSE == <<"r", "e", "s", "p", "o", "n", "s", "e">>
RESOURCE == <<"r", "e", "s", "o", "u", "r", "c", "e">>
REQUEST == <<"r", "e", "q", "u", "e", "s", "t">>
METADATA == <<"m", "e", "t", "a", "d", "a", "t", "a">>
REVISIT == <<"r", "e", "v", "i", "s", "i", "t">>
CONVERSION == <<"c", "o", "n", "v", "e", "r", "s", "i", "o", "n">>
CONTINUATION == <<"c", "o", "n", "t", "i", "n", "u", "a", "t", "i", "o", "n">>
PROFILE == <<"W", "A", "R", "C", "-", "P", "r", "o", "f", "i", "l", "e">>

\* "if not value": the header is absent or its value is empty
Not(value) == IsNone(value) \/ value.l = <<>>

\* c in value
Holds(value, c) == \E i \in 1..Len(value) : value[i] = c

\* the checks of WARC-Record-ID
IdCheck(record_id) ==
    IF Not(record_id) THEN <<<<"missing mandatory field", ID>>>>
    ELSE (IF Head(record_id.l) = "<" /\ record_id.l[Len(record_id.l)] = ">" THEN <<>>
          ELSE <<<<"invalid WARC-Record-ID format", record_id.l, "must be <uri>">>>>)
         \o (IF Holds(record_id.l, SP) \/ Holds(record_id.l, TAB)
             THEN <<<<"WARC-Record-ID contains whitespace", record_id.l>>>>
             ELSE <<>>)

\* The checks of WARC-Date that look at the shape of a date only.
DateCheckShapeOnly(warc_date) ==
    IF Not(warc_date) THEN <<>>
    ELSE IF warc_date.l[Len(warc_date.l)] # "Z" /\ ~Holds(warc_date.l, "T")
    THEN <<<<"WARC-Date format may be invalid", warc_date.l, "should be W3CDTF">>>>
    ELSE <<>>

\* the checks of WARC-Date
DateCheck(warc_date) ==
    IF Not(warc_date) THEN <<<<"missing mandatory field", DATE>>>>
    ELSE IF warc_date.l[Len(warc_date.l)] # "Z" /\ ~Holds(warc_date.l, "T")
    THEN <<<<"WARC-Date format may be invalid", warc_date.l, "should be W3CDTF">>>>
    ELSE <<>>

\* the checks of WARC-Type
TypeCheck(warc_type) ==
    IF Not(warc_type) THEN <<<<"missing mandatory field", TYPE>>>>
    ELSE IF warc_type.l \notin {WARCINFO, RESPONSE, RESOURCE, REQUEST, METADATA, REVISIT,
                                CONVERSION, CONTINUATION}
    THEN <<<<"unknown WARC-Type", warc_type.l, "will be skipped per spec">>>>
    ELSE <<>>

\* The checks of Content-Length with an int() whose ValueError nothing catches.
LengthCheckUnhandled(value) ==
    IF Not(value)
    THEN [errors |-> <<<<"missing mandatory field", CONTENT_LENGTH>>>>, raised |-> FALSE]
    ELSE IF ~PyIntOf(value.l).ok
    THEN [errors |-> <<>>, raised |-> TRUE]
    ELSE IF PyIntOf(value.l).val < 0
    THEN [errors |-> <<<<"Content-Length must be non-negative", value.l>>>>,
          raised |-> FALSE]
    ELSE [errors |-> <<>>, raised |-> FALSE]

\* the checks of Content-Length: try int(), except ValueError
LengthCheck(value) ==
    IF Not(value)
    THEN [errors |-> <<<<"missing mandatory field", CONTENT_LENGTH>>>>, raised |-> FALSE]
    ELSE IF ~PyIntOf(value.l).ok
    THEN [errors |-> <<<<"Content-Length must be numeric", value.l>>>>,
          raised |-> FALSE]
    ELSE IF PyIntOf(value.l).val < 0
    THEN [errors |-> <<<<"Content-Length must be non-negative", value.l>>>>,
          raised |-> FALSE]
    ELSE [errors |-> <<>>, raised |-> FALSE]

\* the check of WARC-Profile on revisit records
RevisitCheck(warc_type, profile) ==
    IF ~IsNone(warc_type) /\ warc_type.l = REVISIT /\ Not(profile)
    THEN <<<<"WARC-Profile is mandatory for revisit records", PyNone>>>>
    ELSE <<>>

\* WarcRecord.validate: the record's own errors (a copy of the list) and
\* the findings of the checks; the record is left as it is
validate(rec) ==
    LET Checked(length) ==
            [rec |-> rec,
             result |-> IF length.raised THEN <<>>
                        ELSE rec.errors
                             \o IdCheck(get_header(rec, ID))
                             \o DateCheck(get_header(rec, DATE))
                             \o TypeCheck(get_header(rec, TYPE))
                             \o length.errors
                             \o RevisitCheck(get_header(rec, TYPE), get_header(rec, PROFILE)),
             raised |-> length.raised]
    IN  Checked(LengthCheck(get_header(rec, CONTENT_LENGTH)))

\* recs[i].validate()
Validate(i) ==
    /\ Running
    /\ nops < MaxOps
    /\ \E r \in {validate(recs[i])} :
       /\ recs' = [recs EXCEPT ![i] = r.rec]
       /\ last' = Call("validate", i, PyNone, recs[i], stream, r.result, r.raised)
    /\ nops' = nops + 1
    /\ UNCHANGED <<stream, gen, yields, sink, hist>>

\* the header of this name when there is a value for it: None is no header
Field(name, value) == IF IsNone(value) THEN <<>> ELSE <<<<name, value.l>>>>

\* the values the application gives to the fields of the records it validates
IdValues == {PyNone, PyBytes(<<>>), PyBytes(RecordId(1)), PyBytes(<<"1">>),
             PyBytes(<<"<", SP, "1", ">">>)}
DateValues == {PyNone, PyBytes(<<"2", "0", "2", "0", "Z">>), PyBytes(<<"2", "0", "2", "0">>),
               PyBytes(<<"2", "0", "T", "1">>)}
TypeValues == {PyNone, PyBytes(RESOURCE), PyBytes(REVISIT), PyBytes(<<"b", "o", "g", "u", "s">>)}
LengthValues == {PyNone, PyBytes(<<>>), PyBytes(<<"2">>), PyBytes(<<"5">>), PyBytes(<<"x">>),
                 PyBytes(<<"-", "1">>)}
ProfileValues == {PyNone, PyBytes(<<"p">>)}

\* a record with these fields, the payload b"hi" and no error or one
ValidatedRecord(id, date, type, length, profile, errors) ==
    WarcRecord(VERSION,
               Field(ID, id) \o Field(DATE, date) \o Field(TYPE, type)
               \o Field(CONTENT_LENGTH, length) \o Field(PROFILE, profile),
               ContentPair(PyBytes(TextPlain), <<"h", "i">>), errors, NoFile)

ValidatedRecords ==
    {ValidatedRecord(id, date, type, length, profile, errors) :
        id \in IdValues, date \in DateValues, type \in TypeValues, length \in LengthValues,
        profile \in ProfileValues,
        errors \in {<<>>, <<<<"incorrect newline in header", <<LF>>>>>>}}

\* an application that builds a record and validates it
NextV ==
    \/ \E t \in ValidatedRecords : Build(t)
    \/ \E i \in 1..Len(recs) : Validate(i)

SpecV == InitW /\ [][NextV]_vars

\* the record has the four mandatory fields
HasMandatory(rec) ==
    /\ ~Not(get_header(rec, ID))
    /\ ~Not(get_header(rec, DATE))
    /\ ~Not(get_header(rec, TYPE))
    /\ ~Not(get_header(rec, CONTENT_LENGTH))

\* the declared Content-Length is the byte length of the payload
LengthMatches(rec) ==
    /\ PyIntOf(get_header(rec, CONTENT_LENGTH).l).ok
    /\ PyIntOf(get_header(rec, CONTENT_LENGTH).l).val = Len(rec.content.data)

\* C18: validate() returns a non-empty list for a record without a
\* Content-Length field and for a record whose declared Content-Length is
\* not the byte length of its payload, and an empty list for a record that
\* has the four mandatory fields and a matching length.
C18_ValidationCompleteness ==
    (last.op = "validate" /\ last.rec0.content.resolved) =>
        /\ Not(get_header(last.rec0, CONTENT_LENGTH)) => last.result # <<>>
        /\ (~Not(get_header(last.rec0, CONTENT_LENGTH)) /\ ~LengthMatches(last.rec0))
              => last.result # <<>>
        /\ (HasMandatory(last.rec0) /\ LengthMatches(last.rec0)) => last.result = <<>>

\* C19: validate() never raises, whatever the record's fields are; it
\* returns its findings as a list and changes neither the record nor the
\* stream, so a second call in a row returns the same list.
C19_ValidateReturnsData ==
    [][last'.op = "validate" =>
          /\ ~last'.raised
          /\ recs' = recs
          /\ stream' = stream
          /\ (last.op = "validate" /\ last.rec = last'.rec) => last'.result = last.result
      ]_vars

\* C19's case: a record whose Content-Length is not numeric was validated
\* twice.
C19_Witness ==
    /\ last.op = "validate"
    /\ nops = 2
    /\ get_header(recs[last.rec], CONTENT_LENGTH) = PyBytes(<<"x">>)
    /\ \E i \in 1..Len(last.result) :
          last.result[i] = <<"Content-Length must be numeric", <<"x">>>>

\* ------------------------------------------- sequences of written records

MaxSeq == 2        \* records the application builds to write to one file

\* the record types of the records that are written
SeqTypes == {WARCINFO, RESPONSE}

\* the content types of the pairs: a media type, or None
SeqContentTypes == {PyBytes(TextPlain), PyNone}

\* the headers of the records of tests/test_integration.py: type, id, date, url
SeqHeaders(i, type) ==
    <<<<TYPE, type>>,
      <<ID, RecordId(i)>>,
      <<DATE, <<"2", "0", "2", "0", "Z">>>>,
      <<URL, <<"h", ":", "/", "/", "a", "/", Digits[i + 1]>>>>>>

\* the well-formed records the application builds from (content-type, payload) pairs
SeqTemplates ==
    {WarcRecord(VERSION, SeqHeaders(i, type), ContentPair(ctype, Payloads[i]), <<>>, NoFile) :
        i \in 1..Len(Payloads), type \in SeqTypes, ctype \in SeqContentTypes}

\* the application builds one more record of the sequence
BuildSeq(t) ==
    /\ Len(recs) < MaxSeq
    /\ recs' = Append(recs, t)
    /\ last' = Call("build", Len(recs) + 1, PyNone, NoRecord, stream, <<>>, FALSE)
    /\ UNCHANGED <<stream, gen, yields, sink, nops, hist>>

\* an application that builds records and writes them to one file
NextQ ==
    \/ \E t \in SeqTemplates : BuildSeq(t)
    \/ \E i \in 1..Len(recs) : WriteTo(i, FALSE)

SpecQ == InitW /\ [][NextQ]_vars

\* for offset, record, errors in fh.read_records(limit=None), from a transport
\* in state st: the records with the transport as it is when each is yielded,
\* and whether the loop ended with (None, no errors, offset)
RECURSIVE ReadAll(_)
ReadAll(st) ==
    LET r == read_record(st, TRUE)
        rest == ReadAll(r.st)
    IN  IF r.hang \/ r.raised THEN [records |-> <<>>, clean |-> FALSE]
        ELSE IF ~r.isrec
        THEN [records |-> <<>>, clean |-> r.third \in {PyNone, PyList(<<>>)}]
        ELSE [records |-> <<[rec |-> r.rec, st |-> r.st]>> \o rest.records,
              clean |-> rest.clean]

\* the records read back from a file of these bytes
ReadFile(raw) == ReadAll(open_record_stream("warc", "plain", raw, 0))

\* what was read back is the record that was written: no errors, nothing for
\* validate() to report, the same type and url, and the payload's length
ReadAsWritten(got, written) ==
    /\ got.rec.errors = <<>>
    /\ validate(got.rec).result = <<>>
    /\ ~validate(got.rec).raised
    /\ get_header(got.rec, TYPE) = get_header(written, TYPE)
    /\ get_header(got.rec, URL) = get_header(written, URL)
    /\ ~content_length(got.rec, got.st).raised
    /\ content_length(got.rec, got.st).result = PyInt(Len(written.content.data))

\* C20: writing any sequence of well-formed records built from (content-type,
\* payload) pairs to one file and reading the file back yields exactly as many
\* records as were written, in the order written, each with an empty error
\* list and an empty validate() result, with the same type and url, and with
\* content_length equal to the byte length of the payload that was written.
\* Stated for each write: the file reads back as it did before, and then the
\* record just written.
C20_SequenceRoundTrip ==
    [][sink' # sink =>
        LET before == ReadFile(sink)
            after == ReadFile(sink')
            n == Len(before.records)
        IN  /\ after.clean
            /\ Len(after.records) = n + 1
            /\ \A k \in 1..n : after.records[k].rec = before.records[k].rec
            /\ ReadAsWritten(after.records[n + 1], last'.rec0)]_vars

\* C20's case: two different records were written to the file, the first
\* with a payload that looks like a record, the second with no content type.
C20_Witness ==
    /\ Len(recs) = 2
    /\ recs[1].content.data = LooksLikeRecord
    /\ IsNone(recs[2].content.type)
    /\ sink = write_to(recs[1], NoStream, FALSE).out \o write_to(recs[2], NoStream, FALSE).out


\* ------------------------------------------------ writing a record again

MaxCalls == 3      \* calls the application that writes a record again makes

\* the records the application builds around a content_file
FileTemplates ==
    {FileRecord(i, FullHeaders(i)) : i \in 1..Len(Payloads)}
    \cup {FileRecord(i, <<<<ID, RecordId(i)>>>>) : i \in 1..Len(Payloads)}

\* recs[i].write_to(out, gzip=gzip), in a run of MaxCalls calls
Rewrite(i, gzip) ==
    /\ Running
    /\ nops < MaxCalls
    /\ \E r \in {write_to(recs[i], stream, gzip)} :
       /\ stream' = r.st
       /\ recs' = [recs EXCEPT ![i] = r.rec]
       /\ sink' = sink \o r.out
       /\ last' = Call("write_to", i, PyInt(IF gzip THEN 1 ELSE 0), recs[i], stream, r.out,
                       r.raised)
    /\ nops' = nops + 1
    /\ UNCHANGED <<gen, yields, hist>>

\* recs[i].content, in a run of MaxCalls calls
Resolve(i) ==
    /\ Running
    /\ nops < MaxCalls
    /\ \E r \in {content(recs[i], stream)} :
       /\ stream' = r.st
       /\ recs' = [recs EXCEPT ![i] = r.rec]
       /\ last' = Call("content", i, PyNone, recs[i], stream, r.result.data, r.raised)
    /\ nops' = nops + 1
    /\ UNCHANGED <<gen, yields, sink, hist>>

\* an application that builds a record around a content_file, writes it,
\* looks at its content once it is written, and writes it again
NextT ==
    \/ \E t \in FileTemplates : Build(t)
    \/ \E i \in 1..Len(recs), gzip \in BOOLEAN : Rewrite(i, gzip)
    \/ \E i \in 1..Len(recs) : sink # <<>> /\ Resolve(i)

SpecT == InitW /\ [][NextT]_vars

\* C21: a record backed by a content_file can be written once: the first
\* write_to streams the cursor to the output, and every later write_to on the
\* same record raises an error and writes no byte to the output.  The one
\* record of SpecT was built around a content_file; bytes in the output file
\* mean that it has been written.
C21_WrittenOnce ==
    [][last'.op = "write_to" /\ nops' = nops + 1 =>
        IF sink = <<>>
        THEN /\ ~last'.raised
             /\ sink' = WarcRecord_write_to(recs[1], NoStream, CRLF).out
                 \/ sink' = GzipMember(WarcRecord_write_to(recs[1], NoStream, CRLF).out)
        ELSE last'.raised /\ sink' = sink]_vars


\* --------------------------------------------- headers of a written record

\* ArchiveRecord.get_all_headers: the values of the headers whose name is
\* `name`, compared in lower case, in the order of the list
get_all_headers(rec, name) ==
    LET Matches(h) == Lower(name) = Lower(h[1])
        Values(found) == [i \in 1..Len(found) |-> found[i][2]]
    IN  Values(SelectSeq(rec.headers, Matches))

\* the names under which the application may supply a header: not at all,
\* as the class spells it, or in lower case
Spellings(name) == {<<>>, name, Lower(name)}

\* the header list of a record with a record id and, when they have a name,
\* a Content-Length and a Content-Type of the application's own
SuppliedHeaders(length_name, type_name) ==
    <<<<ID, RecordId(1)>>>>
    \o (IF length_name = <<>> THEN <<>> ELSE <<<<length_name, <<"9">>>>>>)
    \o (IF type_name = <<>> THEN <<>> ELSE <<<<type_name, <<"a", "/", "b">>>>>>)

\* records built from a (content-type, payload) pair and such a header list
HeaderTemplates ==
    {WarcRecord(VERSION, SuppliedHeaders(length_name, type_name),
                ContentPair(ctype, payload), <<>>, NoFile) :
        length_name \in Spellings(CONTENT_LENGTH), type_name \in Spellings(CONTENT_TYPE),
        ctype \in {PyBytes(TextPlain), PyNone}, payload \in {Payloads[1], Payloads[3]}}

\* an application that builds such a record and writes it
NextH ==
    \/ \E t \in HeaderTemplates : Build(t)
    \/ \E i \in 1..Len(recs), gzip \in BOOLEAN : WriteTo(i, gzip)

SpecH == InitW /\ [][NextH]_vars

\* the record that the bytes of the last write_to hold, as the parser reads it
WrittenRecord ==
    read_record(open_record_stream("warc", IF last.count.n = 1 THEN "record" ELSE "plain",
                                   last.result, 0), FALSE).rec

\* C22: when a record holding a (content-type, payload) pair is written, any
\* Content-Type and Content-Length entries in the supplied header list are
\* ignored: the output has exactly one Content-Length field, whose value is the
\* payload's byte length, and at most one Content-Type field, whose value is
\* the pair's content type, whatever letter case the supplied header names use.
C22_PairDecidesContentHeaders ==
    (last.op = "write_to" /\ ~last.raised /\ last.rec0.content.resolved) =>
        /\ get_all_headers(WrittenRecord, CONTENT_LENGTH)
               = <<StrOfNat(Len(last.rec0.content.data))>>
        /\ get_all_headers(WrittenRecord, CONTENT_TYPE)
               = IF IsNone(last.rec0.content.type) THEN <<>>
                 ELSE <<last.rec0.content.type.l>>


\* ------------------------------------------------------- mixed dispatch

\* an ARC record: its one-line header and the payload b"hi"
ArcBytes == <<"u", SP, "i", SP, "d", SP, "t", SP, "2", LF, "h", "i", LF>>

\* a WARC record, then an ARC record, then a WARC record
WarcArcWarc == Written(1) \o ArcBytes \o Written(2)

\* the files that are read with the mixed parser
MixedFiles ==
    { WarcArcWarc,
      <<LF>> \o CRLF \o Written(1) \o <<LF>> \o ArcBytes \o <<LF, LF>> \o Written(4),
      <<LF>> \o CRLF \o ArcBytes \o ArcBytes \o Written(1) \o <<CR>>,
      <<"w", "a", "r", "c", "/", "1", ".", "0">> \o CRLF \o CRLF \o Written(1),
      CRLF \o <<SP, LF>> \o Written(1),
      Junk \o Written(1),
      <<LF, LF, LF>>,
      <<>> }

InitM == \E raw \in MixedFiles : Opened(Input("mixed", "plain", raw, TRUE))

\* stream.record_parser.parse(stream): the caller has no line in hand
Parse ==
    /\ Running
    /\ nops < MaxOps
    /\ \E r \in {record_parser_parse(stream, PyNone, PyNone)} :
       /\ stream' = r.st
       /\ gen' = [gen EXCEPT !.hung = r.hang]
       /\ recs' = IF r.isrec /\ ~r.hang /\ ~r.raised THEN Append(recs, r.rec) ELSE recs
       /\ last' = Call("parse", IF r.isrec /\ ~r.hang /\ ~r.raised THEN Len(recs) + 1 ELSE 0,
                       PyNone, NoRecord, stream, <<>>, r.raised)
    /\ nops' = nops + 1
    /\ UNCHANGED <<yields, sink, hist>>

\* a caller that iterates over a mixed file, parses from it and reads payloads
NextM ==
    \/ ReadRecords
    \/ Parse
    \/ \E i \in 1..Len(recs), count \in Counts : CfRead(i, count)

SpecM == InitM /\ [][NextM]_vars

\* the lines that are one of b"\n", b"\r\n", b"\r"
BlankForMixed(line) == line \in {<<LF>>, CRLF, <<CR>>}

\* the number of lines at the head of `lines` that the mixed parser skips
RECURSIVE BlankRun(_)
BlankRun(lines) ==
    IF lines # <<>> /\ BlankForMixed(Head(lines)) THEN 1 + BlankRun(Tail(lines)) ELSE 0

\* the bytes of the first n lines
RECURSIVE LengthOf(_, _)
LengthOf(lines, n) == IF n = 0 THEN 0 ELSE Len(Head(lines)) + LengthOf(Tail(lines), n - 1)

\* What the dispatch has to do from a stream st with no limit set: past the
\* blank lines, the next line goes to the WARC parser if it begins with WARC
\* and to the ARC parser otherwise, with the stream just after that line.
Dispatched(st) ==
    LET lines == LinesOf(Drop(st.data, st.pos))
        n == BlankRun(lines)
        at(k) == [st EXCEPT !.pos = st.pos + LengthOf(lines, k), !.touched = TRUE]
    IN  IF n = Len(lines)
        THEN ParseResult(at(n), FALSE, NoRecord, PyTuple(<<>>), PyNone, FALSE, FALSE)
        ELSE IF StartsWithWARC(lines[n + 1])
        THEN WarcParser_parse(at(n + 1), PyNone, PyBytes(lines[n + 1]))
        ELSE ArcParser_parse(at(n + 1), PyNone, PyBytes(lines[n + 1]))

\* the payload of the record of yields[k], where the transport left it
PayloadAt(k) ==
    SubSeq(stream.data, yields[k].at + 1, yields[k].at + yields[k].limit.n)

\* the mixed file of three records was iterated to its end, and gave its
\* three records with their payloads and then a clean end
ThreeRecords ==
    (stream.raw = WarcArcWarc /\ nops = 0 /\ gen.done) =>
        /\ ~gen.raised /\ ~gen.hung
        /\ Len(yields) = 4
        /\ \A k \in 1..3 : yields[k].isrec /\ yields[k].record.errors = <<>>
        /\ ~yields[4].isrec /\ yields[4].errors.l = <<>>
        /\ get_header(yields[1].record, ID) = PyBytes(RecordId(1))
        /\ PayloadAt(1) = Payloads[1]
        /\ get_header(yields[2].record, ARC_FIELDS[1]) = PyBytes(<<"u">>)
        /\ PayloadAt(2) = <<"h", "i">>
        /\ get_header(yields[3].record, ID) = PyBytes(RecordId(2))
        /\ PayloadAt(3) = Payloads[2]
        /\ stream.pos = Len(stream.data)

\* C23: MixedParser.parse skips blank lines, hands a line that begins with
\* the WARC literal prefix to the WARC parser and any other non-blank line to
\* the ARC parser, always passing on the line it already read, so that no
\* byte of the stream is consumed twice or dropped; a stream holding a WARC
\* record, then an ARC record, then a WARC record yields three records.
C23_MixedDispatch ==
    [][/\ (last'.op = "parse" /\ IsNone(stream.bytes_to_eoc)) =>
           /\ stream' = Dispatched(stream).st
           /\ last'.raised = Dispatched(stream).raised
           /\ gen'.hung = Dispatched(stream).hang
           /\ recs' = IF Dispatched(stream).isrec /\ ~gen'.hung /\ ~last'.raised
                      THEN Append(recs, Dispatched(stream).rec) ELSE recs
       /\ ThreeRecords']_vars

\* C23's case: parse, called without a line, skipped two blank lines and
\* handed the ARC header line that follows them to the ARC parser, which
\* gave a record.
C23_Witness ==
    /\ last.op = "parse"
    /\ last.pos0 = 0
    /\ last.rec > 0
    /\ Head(stream.data) = LF
    /\ recs[last.rec].version = <<>>
    /\ get_header(recs[last.rec], ARC_FIELDS[1]) = PyBytes(<<"u">>)


\* ------------------------------------------------------------ detection

\* blank_rx = ^$ : the empty line, and b"\n" ($ matches before a last \n)
blank_rx(line) == line = <<>> \/ line = <<LF>>

\* archive_types after warc.py is imported: the patterns in the order of
\* registration, each with its record class
archive_types == <<[rx |-> "version_rx", record |-> "WarcRecord"],
                   [rx |-> "blank_rx", record |-> "WarcRecord"]>>

\* rx.match(line) for a registered pattern
RxMatch(name, line) ==
    IF name = "version_rx" THEN version_rx(line).match ELSE blank_rx(line)

\* a file handle the application has opened on these bytes, at position pos
FileHandle(raw, pos) == [NewStream("handle", raw, raw) EXCEPT !.pos = pos]

\* is_gzip_file: signature = file_handle.read(2);
\* file_handle.seek(-len(signature), 1); signature == magic
is_gzip_file(fh) ==
    LET Signature(r) ==
            [fh |-> [r.st EXCEPT !.pos = r.st.pos - Len(r.result)],
             result |-> r.result = GZ_MAGIC]
    IN  Signature(fh_read(fh, PyInt(2)))

\* gzip.GzipFile(fileobj=file_handle).readline(): the first line of the
\* decompressed data.  The file is read in chunks larger than the model's
\* files.  EOFError is raised when the member has no end and no line end
\* was found before.
GzipReadline(fh) ==
    LET ends == {j \in (fh.pos + 3)..Len(fh.raw) : fh.raw[j] = GZ_TRAILER}
        whole == Gunzip(fh.raw, fh.pos)
        Member(e) == SubSeq(fh.raw, fh.pos + 3, e - 1)
        first == IF ends = {} THEN SubSeq(fh.raw, fh.pos + 3, Len(fh.raw))
                 ELSE Member(CHOOSE j \in ends : \A k \in ends : j <= k)
        drained == [fh EXCEPT !.pos = Len(fh.raw), !.touched = TRUE]
    IN  IF \E i \in 1..Len(first) : first[i] = LF
        THEN [fh |-> drained, result |-> Take(first, EndOfLine(first, 0)), raised |-> FALSE]
        ELSE IF whole.ok
        THEN [fh |-> drained, result |-> Take(whole.data, EndOfLine(whole.data, 0)),
              raised |-> FALSE]
        ELSE [fh |-> drained, result |-> <<>>, raised |-> TRUE]

\* for rx, record in archive_types: if rx.match(line): return record
RECURSIVE FirstMatch(_, _)
FirstMatch(types, line) ==
    IF types = <<>> THEN "None"
    ELSE IF RxMatch(Head(types).rx, line) THEN Head(types).record
    ELSE FirstMatch(Tail(types), line)

\* guess_record_type: offset = tell(); nfh = GzipFile if is_gzip_file;
\* line = nfh.readline(); file_handle.seek(offset); the first match
guess_record_type(fh) ==
    LET Line(r) ==
            IF r.raised THEN [fh |-> r.fh, result |-> "None", raised |-> TRUE]
            ELSE [fh |-> [r.fh EXCEPT !.pos = fh.pos],
                  result |-> FirstMatch(archive_types, r.result), raised |-> FALSE]
        Plain(r) == [fh |-> r.st, result |-> r.result, raised |-> FALSE]
        Gz(g) == IF g.result THEN Line(GzipReadline(g.fh))
                 ELSE Line(Plain(fh_readline(g.fh, PyNone)))
    IN  Gz(is_gzip_file(fh))

\* open_record_stream(None, file_handle=fh, gzip="auto"): the record class
\* is guessed, then the transport; raised when the guess is None or raises
open_record_stream_auto(fh) ==
    LET Transport(g) ==
            [st |-> open_record_stream("warc", IF g.result THEN "record" ELSE "plain",
                                       g.fh.raw, g.fh.pos),
             raised |-> FALSE]
        Guessed(c) ==
            IF c.raised \/ c.result = "None" THEN [st |-> c.fh, raised |-> TRUE]
            ELSE Transport(is_gzip_file(c.fh))
    IN  Guessed(guess_record_type(fh))

\* the files whose format is detected
DetectFiles ==
    { <<>>, <<LF>>, CRLF, <<CR>>, <<LF, LF>>,
      CRLF \o Written(1), <<LF>> \o Written(1),
      Written(1) \o Written(2),
      <<"x">> \o Written(1),
      <<"w", "a", "r", "c", "/", "1", ".", "0", LF>>,
      VERSION,
      Junk, <<SP, LF>>, <<"x">>, <<"\\x1f">>,
      ArcBytes,
      GZ_MAGIC,
      GzipMember(Written(1)) \o GzipMember(Written(2)),
      GzipMember(<<>>),
      GzipMember(CRLF \o Written(1)),
      GzipMember(<<LF>> \o Written(1)),
      GzipMember(Junk),
      GZ_MAGIC \o VERSION,
      GzipMember(VERSION) \o GzipMember(CRLF \o CRLF) }

\* The application has a file handle and has opened no transport.  The
\* handle is at the start of the file, or one byte into a file that is not
\* compressed (the bytes inside a member stand for compressed bytes).
InitD ==
    \E raw \in DetectFiles, pos \in 0..1 :
        /\ pos <= Len(raw)
        /\ pos = 0 \/ ~is_gzip_file(FileHandle(raw, 0)).result
        /\ stream = FileHandle(raw, pos)
        /\ gen = [offsets |-> TRUE, done |-> TRUE, hung |-> FALSE, raised |-> FALSE,
                  seeked |-> PyNone]
        /\ recs = <<>>
        /\ yields = <<>>
        /\ sink = <<>>
        /\ nops = 0
        /\ hist = [seeks |-> 0, negative |-> FALSE]
        /\ last = Call("open", 0, PyNone, NoRecord, stream, <<>>, FALSE)

\* is_gzip_file(file_handle)
IsGzipFile ==
    /\ stream.kind = "handle"
    /\ nops < MaxOps
    /\ \E r \in {is_gzip_file(stream)} :
       /\ stream' = r.fh
       /\ last' = Call("is_gzip_file", 0, PyNone, NoRecord, stream,
                       <<IF r.result THEN "True" ELSE "False">>, FALSE)
    /\ nops' = nops + 1
    /\ UNCHANGED <<gen, recs, yields, sink, hist>>

\* guess_record_type(file_handle)
GuessRecordType ==
    /\ stream.kind = "handle"
    /\ nops < MaxOps
    /\ \E r \in {guess_record_type(stream)} :
       /\ stream' = r.fh
       /\ last' = Call("guess_record_type", 0, PyNone, NoRecord, stream, <<r.result>>,
                       r.raised)
    /\ nops' = nops + 1
    /\ UNCHANGED <<gen, recs, yields, sink, hist>>

\* open_record_stream(file_handle=file_handle, gzip="auto") and, when it
\* gives a transport, the call of read_records
OpenRecordStream ==
    /\ stream.kind = "handle"
    /\ nops < MaxOps
    /\ \E r \in {open_record_stream_auto(stream)} :
       /\ stream' = r.st
       /\ gen' = [gen EXCEPT !.done = r.raised]
       /\ last' = Call("open_record_stream", 0, PyNone, NoRecord, stream, <<>>, r.raised)
    /\ nops' = nops + 1
    /\ UNCHANGED <<recs, yields, sink, hist>>

\* an application that inspects a file handle, opens a transport on it and
\* iterates
NextD ==
    \/ IsGzipFile
    \/ GuessRecordType
    \/ OpenRecordStream
    \/ ReadRecords

SpecD == InitD /\ [][NextD]_vars

\* the first logical line of the source behind a file handle
FirstLogicalLine(fh) ==
    IF is_gzip_file(fh).result THEN GzipReadline(fh).result
    ELSE fh_readline(fh, PyNone).result

\* the line is blank: empty input, a bare LF or a CRLF
BlankFirstLine(line) == line \in {<<>>, <<LF>>, CRLF}

\* C24: guess_record_type returns the WARC record class when the first
\* logical line of the source matches the WARC version pattern or is blank
\* (empty input, a bare LF or a CRLF), trying the version pattern before the
\* blank fallback, and returns none otherwise; when it returns none and no
\* record class was given, opening fails with an error and returns no
\* transport.
C24_GuessRecordType ==
    [][/\ (last'.op = "guess_record_type" /\ ~last'.raised) =>
           /\ archive_types[1].rx = "version_rx"
           /\ last'.result =
                  IF \/ version_rx(FirstLogicalLine(stream)).match
                     \/ BlankFirstLine(FirstLogicalLine(stream))
                  THEN <<"WarcRecord">> ELSE <<"None">>
       /\ (/\ last'.op = "open_record_stream"
           /\ ~guess_record_type(stream).raised
           /\ guess_record_type(stream).result = "None") =>
              last'.raised /\ stream'.kind = "handle"]_vars

\* C25: detection leaves the source where it found it: after is_gzip_file
\* and after guess_record_type, for gzip and non-gzip sources and for sources
\* shorter than two bytes, the position of the outer byte source equals its
\* position before the call.
C25_DetectionRestoresPosition ==
    [][last'.op \in {"is_gzip_file", "guess_record_type"} /\ nops' = nops + 1 =>
          stream'.pos = stream.pos]_vars


\* -------------------------------------------------------- version lines

\* what may stand before the version token, the version numbers and the
\* line ends of the version lines that are parsed
VersionPrefixes == {<<>>, <<"x">>, <<"x", SP>>}
VersionNumbers == KNOWN_VERSIONS \cup {<<"2", ".", "0">>}
VersionNewlines == {CRLF, <<LF>>}

\* a record with this version line, one header and the payload b"hi",
\* followed by a well-formed record
VersionFile(prefix, number, nl) ==
    prefix \o WARCSLASH \o number \o nl
    \o CONTENT_LENGTH \o <<":", SP, "2">> \o CRLF \o CRLF
    \o <<"h", "i">> \o CRLF \o CRLF \o Written(1)

VersionFiles ==
    {VersionFile(prefix, number, nl) :
        prefix \in VersionPrefixes, number \in VersionNumbers, nl \in VersionNewlines}

InitL == \E raw \in VersionFiles : Opened(Input("warc", "plain", raw, TRUE))

\* a caller that iterates over the file and reads the payloads
NextL ==
    \/ ReadRecords
    \/ \E i \in 1..Len(recs), count \in Counts : CfRead(i, count)
    \/ \E i \in 1..Len(recs) : Content(i)

SpecL == InitL /\ [][NextL]_vars

\* the version line of the file, as version_rx takes it apart
VersionLine == version_rx(Take(stream.data, EndOfLine(stream.data, 0)))

\* the conditions of the version line that are violated
VersionFaults ==
    (IF VersionLine.nl # CRLF THEN {"newline"} ELSE {})
    \cup (IF VersionLine.prefix # <<>> THEN {"prefix"} ELSE {})
    \cup (IF VersionLine.number \notin KNOWN_VERSIONS THEN {"number"} ELSE {})

\* the condition an error of the version line is about
FaultOf(e) ==
    IF e[1] = "incorrect newline in version" THEN "newline"
    ELSE IF e[1] = "bad prefix on WARC version header" THEN "prefix"
    ELSE "number"

\* C26: a version line whose line ending is not CRLF, that has a non-empty
\* prefix before the version token, or whose version number is not in the
\* known set (1.0, 1.1, 0.17, 0.18) adds one non-fatal error per violated
\* condition to the record's own error list, and the record is still parsed
\* and returned.
C26_VersionLineErrors ==
    last.op # "open" =>
        /\ ~gen.raised
        /\ Len(yields) >= 1
        /\ yields[1].isrec
        /\ yields[1].errors.l = <<>>
        /\ Len(yields[1].record.errors) = Cardinality(VersionFaults)
        /\ {FaultOf(yields[1].record.errors[k]) : k \in 1..Len(yields[1].record.errors)}
               = VersionFaults
        /\ get_header(yields[1].record, CONTENT_LENGTH) = PyBytes(<<"2">>)


\* -------------------------------------------------------- folded headers

FOLDED == <<"X">>

\* the value on the header's own line, the pieces on the lines that follow
\* it, and the whitespace those lines start with
FirstPieces == {<<"a">>, <<"a", SP, "b">>, <<>>}
MorePieces == {<<<<"b">>>>, <<<<"b">>, <<"c">>>>, <<<<"b", SP, SP, "c">>>>}
Indents == {<<SP>>, <<TAB>>, <<SP, SP>>}

\* the lines that continue a header: each piece after the whitespace
RECURSIVE FoldLines(_, _)
FoldLines(more, indent) ==
    IF more = <<>> THEN <<>>
    ELSE indent \o Head(more) \o CRLF \o FoldLines(Tail(more), indent)

\* a record with the header X of this value, then Content-Length, and the
\* payload b"hi"
HeaderFile(lines) ==
    V10 \o FOLDED \o <<":", SP>> \o lines
    \o CONTENT_LENGTH \o <<":", SP, "2">> \o CRLF \o CRLF \o <<"h", "i">> \o CRLF \o CRLF

\* the header X written over several lines, and written on one line
FoldFile(first, more, indent) == HeaderFile(first \o CRLF \o FoldLines(more, indent))
OneLineFile(first, more) == HeaderFile(JoinSp(<<first>> \o more) \o CRLF)

FoldFiles ==
    {FoldFile(first, more, indent) :
        first \in FirstPieces, more \in MorePieces, indent \in Indents}

InitF == \E raw \in FoldFiles : Opened(Input("warc", "plain", raw, TRUE))

\* a caller that iterates over the file and reads the payload
NextF ==
    \/ ReadRecords
    \/ \E i \in 1..Len(recs), count \in Counts : CfRead(i, count)
    \/ \E i \in 1..Len(recs) : Content(i)

SpecF == InitF /\ [][NextF]_vars

\* the header list of the first record of a file
HeadersOf(raw) == read_record(open_record_stream("warc", "plain", raw, 0), TRUE).rec.headers

\* C27: a header line followed by one or more lines that start with
\* whitespace and contain text is parsed as one header whose value is the
\* stripped pieces joined by single spaces: the header list gets exactly one
\* entry for it, in file order, and is equal to the header list obtained by
\* parsing the same header written on one line.
C27_FoldedHeader ==
    last.op # "open" =>
        \A first \in FirstPieces, more \in MorePieces, indent \in Indents :
            stream.raw = FoldFile(first, more, indent) =>
                /\ yields[1].isrec
                /\ Len(yields[1].record.headers) = 2
                /\ yields[1].record.headers[1] = <<FOLDED, JoinSp(<<first>> \o more)>>
                /\ yields[1].record.headers[2][1] = CONTENT_LENGTH
                /\ yields[1].record.headers = HeadersOf(OneLineFile(first, more))


\* ------------------------------------------------- binding the payload

\* a record whose first header line starts with a carriage return
CrHeaderFile ==
    V10 \o <<CR, "X", ":", SP, "y">> \o CRLF
    \o CONTENT_LENGTH \o <<":", SP, "2">> \o CRLF \o CRLF \o <<"h", "i">> \o CRLF \o CRLF

\* the files whose records are bound to the stream: written records, records
\* with each kind of Content-Length, a header block that ends with the file,
\* a header after a folded one, and a header line that starts with \r
BoundFiles ==
    {Written(i) \o Written(j) : i, j \in 1..Len(Payloads)}
    \cup LengthFiles
    \cup {V10 \o FOLDED \o <<":", SP, "a">> \o CRLF,
          FoldFile(<<"a">>, <<<<"b">>>>, <<SP>>) \o <<SP, "h", "i">> \o CRLF,
          CrHeaderFile}

InitB == \E raw \in BoundFiles : Opened(Input("warc", "plain", raw, TRUE))

\* a caller that iterates over the file and reads the payloads
NextB ==
    \/ ReadRecords
    \/ \E i \in 1..Len(recs), count \in Counts : CfRead(i, count)
    \/ \E i \in 1..Len(recs) : Content(i)

SpecB == InitB /\ [][NextB]_vars

\* the position just after the first line, from position pos on, that is a
\* line end and nothing else; the end of the data when there is none
RECURSIVE AfterBlankLine(_, _)
AfterBlankLine(data, pos) ==
    IF pos >= Len(data) THEN Len(data)
    ELSE IF SubSeq(data, pos + 1, EndOfLine(data, pos)) \in {CRLF, <<LF>>, <<CR>>}
    THEN EndOfLine(data, pos)
    ELSE AfterBlankLine(data, EndOfLine(data, pos))

\* the length the parser took from the headers it appended: the value of
\* the last Content-Length that is a number, 0 when there is none
RECURSIVE ParsedLength(_)
ParsedLength(headers) ==
    IF headers = <<>> THEN 0
    ELSE IF length_rx(headers[Len(headers)][1]) /\ PyIntOf(headers[Len(headers)][2]).ok
    THEN PyIntOf(headers[Len(headers)][2]).val
    ELSE ParsedLength(SubSeq(headers, 1, Len(headers) - 1))

\* C28: when parse returns a record, no payload byte has been consumed: the
\* stream position is exactly at the first payload byte (just after the blank
\* line that ends the headers), the record's content_file is the stream
\* itself, and bytes_to_eoc equals the parsed content length.
C28_PayloadBound ==
    \A k \in 1..Len(yields) :
        yields[k].isrec =>
            /\ yields[k].at = AfterBlankLine(stream.data, yields[k].offset.n)
            /\ yields[k].record.content_file = StreamFile
            /\ yields[k].limit = PyInt(ParsedLength(yields[k].record.headers))

\* ---------------------------------------------------------------------
\* Records without mandatory fields (warc.py 569-586, 276-346)
\* ---------------------------------------------------------------------

\* the mandatory fields, in the order validate() checks them
MandatoryFields == <<ID, DATE, TYPE, CONTENT_LENGTH>>

\* the payloads of the incomplete records
IncompletePayloads == {<<>>, <<"h", "i">>, TwoLines, SixLines}

\* the value an incomplete record gives to this field
MandatoryValue(name, payload) ==
    IF name = ID THEN RecordId(7)
    ELSE IF name = DATE THEN <<"2", "0", "2", "0", "Z">>
    ELSE IF name = TYPE THEN RESOURCE
    ELSE StrOfNat(Len(payload))

\* the header lines of the mandatory fields the record has
RECURSIVE MandatoryLines(_, _, _)
MandatoryLines(names, present, payload) ==
    IF names = <<>> THEN <<>>
    ELSE (IF Head(names) \in present
          THEN Head(names) \o <<":", SP>> \o MandatoryValue(Head(names), payload) \o CRLF
          ELSE <<>>)
         \o MandatoryLines(Tail(names), present, payload)

\* a record with these mandatory fields only, and a well-formed record
\* behind it
IncompleteFile(present, payload) ==
    V10 \o MandatoryLines(MandatoryFields, present, payload) \o CRLF
    \o payload \o CRLF \o CRLF \o Written(1)

FieldSets == SUBSET {ID, DATE, TYPE, CONTENT_LENGTH}

IncompleteFiles ==
    {IncompleteFile(present, payload) : present \in FieldSets, payload \in IncompletePayloads}

InitI == \E raw \in IncompleteFiles : Opened(Input("warc", "plain", raw, TRUE))

\* a caller that iterates over the file and validates the records
NextI ==
    \/ ReadRecords
    \/ \E i \in 1..Len(recs) : Validate(i)

SpecI == InitI /\ [][NextI]_vars

\* the headers of the mandatory fields the record has
RECURSIVE PresentHeaders(_, _, _)
PresentHeaders(names, present, payload) ==
    IF names = <<>> THEN <<>>
    ELSE (IF Head(names) \in present
          THEN <<<<Head(names), MandatoryValue(Head(names), payload)>>>>
          ELSE <<>>)
         \o PresentHeaders(Tail(names), present, payload)

\* one "missing mandatory field" finding for each field the record lacks
RECURSIVE MissingFindings(_, _)
MissingFindings(names, present) ==
    IF names = <<>> THEN <<>>
    ELSE (IF Head(names) \in present THEN <<>>
          ELSE <<<<"missing mandatory field", Head(names)>>>>)
         \o MissingFindings(Tail(names), present)

\* the first record of the file is yielded with the headers it has and an
\* empty error list, and validate() on it reports the fields it lacks
IncompleteYielded(present, payload) ==
    /\ ~gen.raised /\ ~gen.hung
    /\ Len(yields) >= 1 =>
          /\ yields[1].isrec
          /\ yields[1].record.headers = PresentHeaders(MandatoryFields, present, payload)
          /\ yields[1].record.errors = <<>>
          /\ yields[1].errors = PyTuple(<<>>)
    /\ (last.op = "validate" /\ last.rec = 1) =>
          /\ ~last.raised
          /\ last.result = MissingFindings(MandatoryFields, present)
          /\ recs[1] = last.rec0

MaxHeaders == 3     \* headers of a record the lookups are made on

\* the names of the headers, and the names the caller asks for
LookupNames == {<<"I", "D">>, <<"i", "d">>, <<"I", "d">>, <<"I", "E">>}
QueryNames == LookupNames \cup {<<"i", "D">>, <<"i", "e">>, <<"I">>, <<"I", "D", "E">>}

\* the value of the k-th header: upper and lower case letters, and k
LookupValue(k) == <<"V", "a", "L", Digits[k + 1]>>

\* the header lists of these names, in this order
LookupHeaders(names) == [k \in 1..Len(names) |-> <<names[k], LookupValue(k)>>]

NameLists == UNION {[1..n -> LookupNames] : n \in 0..MaxHeaders}

LookupRecords ==
    {WarcRecord(VERSION, LookupHeaders(names), ContentPair(PyNone, <<>>), <<>>, NoFile) :
        names \in NameLists}

\* recs[i].get_header(name)
GetHeader(i, name) ==
    /\ Running
    /\ nops < MaxOps
    /\ last' = Call("get_header", i, PyBytes(name), recs[i], stream,
                    get_header(recs[i], name), FALSE)
    /\ nops' = nops + 1
    /\ UNCHANGED <<stream, gen, recs, yields, sink, hist>>

\* recs[i].get_all_headers(name)
GetAllHeaders(i, name) ==
    /\ Running
    /\ nops < MaxOps
    /\ last' = Call("get_all_headers", i, PyBytes(name), recs[i], stream,
                    get_all_headers(recs[i], name), FALSE)
    /\ nops' = nops + 1
    /\ UNCHANGED <<stream, gen, recs, yields, sink, hist>>

\* an application that builds a record and looks its headers up
NextG ==
    \/ \E t \in LookupRecords : Build(t)
    \/ \E i \in 1..Len(recs), name \in QueryNames : GetHeader(i, name)
    \/ \E i \in 1..Len(recs), name \in QueryNames : GetAllHeaders(i, name)

SpecG == InitW /\ [][NextG]_vars

\* the letters of the names, in their two cases
CasePairs == {{"I", "i"}, {"D", "d"}, {"E", "e"}}

\* the two names are equal when the case of ASCII letters is ignored
SameName(a, b) ==
    /\ Len(a) = Len(b)
    /\ \A k \in 1..Len(a) : a[k] = b[k] \/ {a[k], b[k]} \in CasePairs

\* the values of the headers of this name, in the order of the list
RECURSIVE ValuesOf(_, _)
ValuesOf(headers, name) ==
    IF headers = <<>> THEN <<>>
    ELSE (IF SameName(Head(headers)[1], name) THEN <<Head(headers)[2]>> ELSE <<>>)
         \o ValuesOf(Tail(headers), name)

\* C30: get_header(name) returns the value of the first header, in
\* insertion order, whose name equals the query ignoring ASCII case, and
\* None when there is none; get_all_headers(name) returns the values of all
\* such headers in insertion order, the empty list when there is none; the
\* values are returned as they are stored, and the header list and the rest
\* of the record are left as they were.
C30_HeaderLookup ==
    [][/\ last'.op = "get_header" =>
              /\ ~last'.raised
              /\ recs' = recs
              /\ LET all == ValuesOf(recs[last'.rec].headers, last'.count.l) IN
                 last'.result = IF all = <<>> THEN PyNone ELSE PyBytes(Head(all))
       /\ last'.op = "get_all_headers" =>
              /\ ~last'.raised
              /\ recs' = recs
              /\ last'.result = ValuesOf(recs[last'.rec].headers, last'.count.l)]_vars

\* C30's case: a lookup under a name in another case than the stored ones
\* found the second and the third of three headers.
C30_Witness ==
    /\ last.op = "get_all_headers"
    /\ last.count = PyBytes(<<"i", "D">>)
    /\ Len(recs[last.rec].headers) = 3
    /\ recs[last.rec].headers[1][1] = <<"I", "E">>
    /\ recs[last.rec].headers[2][1] = <<"I", "d">>
    /\ last.result = <<LookupValue(2), LookupValue(3)>>

\* ---------------------------------------------------------------------
\* Two transports on one file (stream.py 55-63, 99-105)
\* ---------------------------------------------------------------------

Transports == 1..2

\* A handle that the transports share.
SharedHandle(t) == 1

\* open(filename): the handle the transport t gets, its own
OpenHandle(t) == t

\* the files the two transports read
SharedFiles ==
    {Written(1) \o Written(2), Written(2) \o Written(1), BadLength(TwoLines) \o Written(1)}

\* what the caller asks of a transport: next(read_records), and the reads
\* of the content of a record it yielded
SharedCounts == {PyNone, PyInt(0), PyInt(1)}
NextOp == <<"next", 0, PyNone>>
ReadOp(i, count) == <<"read", i, count>>

\* a transport with its generator, the records and the tuples it yielded
Transport(st, g, rs, ys) == [st |-> st, gen |-> g, recs |-> rs, yields |-> ys]

\* the transport after open_record_stream and the call of read_records
OpenedTransport(raw) ==
    Transport(open_record_stream("warc", "plain", raw, 0),
              [offsets |-> TRUE, done |-> FALSE, hung |-> FALSE, raised |-> FALSE,
               seeked |-> PyNone],
              <<>>, <<>>)

\* one turn of the generator's loop on the transport x
TransportNext(x) ==
    LET Turn(r) ==
            Transport(r.st,
                      [x.gen EXCEPT !.done = r.hang \/ r.raised \/ ~r.isrec,
                                    !.hung = r.hang, !.raised = r.raised],
                      IF r.isrec /\ ~r.hang /\ ~r.raised THEN Append(x.recs, r.rec)
                      ELSE x.recs,
                      IF r.hang \/ r.raised THEN x.yields
                      ELSE Append(x.yields,
                              [offset |-> r.first, isrec |-> r.isrec,
                               rec |-> IF r.isrec THEN Len(x.recs) + 1 ELSE 0,
                               errors |-> r.third,
                               record |-> r.rec,
                               at |-> r.st.pos,
                               limit |-> r.st.bytes_to_eoc,
                               seeked |-> PyNone,
                               data |-> <<>>]))
    IN  Turn(read_record(x.st, x.gen.offsets))

\* x.recs[i].content_file.read(count): the bytes read are kept with the tuple
TransportRead(x, i, count) ==
    LET Got(r) ==
            Transport(r.st, x.gen, [x.recs EXCEPT ![i] = r.rec],
                      [k \in 1..Len(x.yields) |->
                          IF x.yields[k].rec = i
                          THEN [x.yields[k] EXCEPT !.data = @ \o r.result]
                          ELSE x.yields[k]])
    IN  Got(cf_read(x.recs[i], x.st, count))

\* the call can be made on the transport
Enabled(x, op) ==
    /\ ~x.gen.hung
    /\ IF op[1] = "next" THEN ~x.gen.done ELSE op[2] \in 1..Len(x.recs)

TransportStep(x, op) ==
    IF op[1] = "next" THEN TransportNext(x) ELSE TransportRead(x, op[2], op[3])

\* the transport t as the program has it: its fields, and the position of
\* its file handle
View(t) ==
    Transport([stream.of[t] EXCEPT !.pos = stream.fh[OpenHandle(t)]],
              gen[t], recs[t], yields[t])

InitX ==
    \E raw \in SharedFiles :
       /\ stream = [fh |-> [h \in Transports |-> 0],
                    of |-> [t \in Transports |-> OpenedTransport(raw).st]]
       /\ gen = [t \in Transports |-> OpenedTransport(raw).gen]
       /\ recs = [t \in Transports |-> <<>>]
       /\ yields = [t \in Transports |-> <<>>]
       /\ sink = <<>>
       /\ nops = 0
       /\ hist = [t \in Transports |-> <<>>]
       /\ last = Call("open", 0, PyNone, NoRecord, OpenedTransport(raw).st, <<>>, FALSE)

\* the caller makes the call op on the transport t
Stepped(t, op) ==
    /\ Enabled(View(t), op)
    /\ \E x \in {TransportStep(View(t), op)} :
       /\ stream' = [fh |-> [stream.fh EXCEPT ![OpenHandle(t)] = x.st.pos],
                     of |-> [stream.of EXCEPT ![t] = x.st]]
       /\ gen' = [gen EXCEPT ![t] = x.gen]
       /\ recs' = [recs EXCEPT ![t] = x.recs]
       /\ yields' = [yields EXCEPT ![t] = x.yields]
    /\ hist' = [hist EXCEPT ![t] = Append(@, op)]
    /\ last' = Call(op[1], t, op[3], NoRecord, View(t).st, <<>>, FALSE)
    /\ UNCHANGED sink

\* next(read_records) on the transport t
ReadRecordsOf(t) ==
    /\ Stepped(t, NextOp)
    /\ UNCHANGED nops

\* the read of the content of the i-th record of the transport t
CfReadOf(t, i, count) ==
    /\ nops < MaxOps
    /\ Stepped(t, ReadOp(i, count))
    /\ nops' = nops + 1

NextX ==
    \/ \E t \in Transports : ReadRecordsOf(t)
    \/ \E t \in Transports, i \in 1..MaxSeq, count \in SharedCounts : CfReadOf(t, i, count)

SpecX == InitX /\ [][NextX]_vars

\* the transport that made these calls alone on the file
RECURSIVE Alone(_, _)
Alone(raw, calls) ==
    IF calls = <<>> THEN OpenedTransport(raw)
    ELSE TransportStep(Alone(raw, SubSeq(calls, 1, Len(calls) - 1)), calls[Len(calls)])

\* what the caller saw of a transport: its tuples, with the offsets, the
\* headers, the errors and the content read
Seen(x) ==
    [k \in 1..Len(x.yields) |->
        [offset |-> x.yields[k].offset, isrec |-> x.yields[k].isrec,
         errors |-> x.yields[k].errors, headers |-> x.yields[k].record.headers,
         record_errors |-> x.yields[k].record.errors, data |-> x.yields[k].data]]

MaxStored == 2      \* the records of an archive warcvalid checks

\* A test that takes every value but None for true.
IsGiven(value) == ~IsNone(value)

\* bool(value) of a value of the model
Truth(value) ==
    IF IsNone(value) THEN FALSE
    ELSE IF IsInt(value) THEN value.n # 0
    ELSE value.l # <<>>

\* the bytes write_to gives for a record with the mandatory fields
ValidBytes(i) ==
    write_to(PairRecord(i, FullHeaders(i)), NewStream("plain", <<>>, <<>>), FALSE).out

\* the stored records: two that are valid, one without date and type, one
\* with an unparsable length, one behind a line of junk, and a line of junk
StoredRecords ==
    {ValidBytes(1), ValidBytes(3), Written(1), BadLength(TwoLines), Junk \o ValidBytes(1), Junk}

StoredLists == UNION {[1..n -> StoredRecords] : n \in 0..MaxStored}

RECURSIVE Concat(_)
Concat(list) == IF list = <<>> THEN <<>> ELSE Head(list) \o Concat(Tail(list))

\* the records stored uncompressed, each in a gzip member of its own, and
\* all in one gzip member
Stored(list, how) ==
    IF how = "plain" THEN Concat(list)
    ELSE IF how = "record" THEN Concat([k \in 1..Len(list) |-> GzipMember(list[k])])
    ELSE GzipMember(Concat(list))

Storages == {"plain", "record", "file"}

\* WarcRecord.open_archive(name, gzip="auto"): the record class is given, the
\* compression is found from the first two bytes
open_archive(raw) ==
    LET Opening(g) ==
            open_record_stream("warc", IF g.result THEN "record" ELSE "plain",
                               g.fh.raw, g.fh.pos)
    IN  Opening(is_gzip_file(FileHandle(raw, 0)))

\* the exit status of warcvalid
EXIT_OK == <<"0">>
EXIT_FAILED == <<"-1">>

InitK ==
    \E list \in StoredLists, how \in Storages :
        /\ stream = FileHandle(Stored(list, how), 0)
        /\ gen = [offsets |-> TRUE, done |-> FALSE, hung |-> FALSE, raised |-> FALSE,
                  seeked |-> PyNone]
        /\ recs = <<>>
        /\ yields = <<>>
        /\ sink = <<>>
        /\ nops = 0
        /\ hist = [seeks |-> 0, negative |-> FALSE]
        /\ last = Call("open", 0, PyNone, NoRecord, stream, <<>>, FALSE)

\* fh = WarcRecord.open_archive(name, gzip="auto")
OpenArchive ==
    /\ stream.kind = "handle"
    /\ stream' = open_archive(stream.raw)
    /\ last' = Call("open_archive", 0, PyNone, NoRecord, stream, <<>>, FALSE)
    /\ UNCHANGED <<gen, recs, yields, sink, nops, hist>>

\* what one turn of the loop of main finds: an exception, a tuple with
\* errors, a record validate() has findings for; the end of the generator
WarcvalidFinds(r) ==
    LET Validated(v) ==
            IF v.raised \/ v.result # <<>> THEN EXIT_FAILED
            ELSE <<>>
    IN  IF r.raised THEN EXIT_FAILED
        ELSE IF Truth(r.third) THEN EXIT_FAILED
        ELSE IF r.isrec THEN Validated(validate(r.rec))
        ELSE EXIT_OK

\* one turn of `for offset, record, errors in fh.read_records(limit=None)`
\* with its body, and the exit of main when the loop ends
WarcvalidTurn ==
    /\ stream.kind # "handle"
    /\ Running
    /\ ~gen.done
    /\ \E r \in {read_record(stream, TRUE)} :
       /\ stream' = r.st
       /\ gen' = [gen EXCEPT !.done = r.hang \/ WarcvalidFinds(r) # <<>>,
                             !.hung = r.hang, !.raised = r.raised]
       /\ recs' = IF r.isrec /\ ~r.hang /\ ~r.raised THEN Append(recs, r.rec) ELSE recs
       /\ yields' = IF r.hang \/ r.raised THEN yields
                    ELSE Append(yields,
                            [offset |-> r.first, isrec |-> r.isrec,
                             rec |-> IF r.isrec THEN Len(recs) + 1 ELSE 0,
                             errors |-> r.third,
                             record |-> r.rec,
                             at |-> r.st.pos,
                             limit |-> r.st.bytes_to_eoc,
                             seeked |-> PyNone])
       /\ sink' = IF r.hang THEN sink ELSE WarcvalidFinds(r)
       /\ last' = Call("warcvalid", 0, PyNone, NoRecord, stream, <<>>, r.raised)
    /\ UNCHANGED <<nops, hist>>

NextK ==
    \/ OpenArchive
    \/ WarcvalidTurn

SpecK == InitK /\ [][NextK]_vars

\* the records read from the uncompressed archive have no parse error and
\* nothing for validate() to report, and the archive ends cleanly
AllValid(list) ==
    LET Read(got) ==
            /\ got.clean
            /\ \A k \in 1..Len(got.records) :
                  /\ got.records[k].rec.errors = <<>>
                  /\ ~validate(got.records[k].rec).raised
                  /\ validate(got.records[k].rec).result = <<>>
    IN  Read(ReadFile(Concat(list)))

\* C32: warcvalid's verdict does not depend on the transport: for the same
\* records stored uncompressed, one per gzip member, or in one gzip member,
\* it exits with status 0 exactly when no record has parse errors and every
\* record's validate() is empty, the end-of-input tuple counting as no error.
C32_VerdictAcrossTransports ==
    \A list \in StoredLists, how \in Storages :
        (stream.raw = Stored(list, how) /\ gen.done) =>
            /\ ~gen.hung
            /\ sink = IF AllValid(list) THEN EXIT_OK ELSE EXIT_FAILED

\* C32's case: warcvalid exited with status 0 on two valid records that
\* are stored in two gzip members.
C32_Witness ==
    /\ stream.raw = Stored(<<ValidBytes(1), ValidBytes(3)>>, "record")
    /\ gen.done
    /\ sink = EXIT_OK
    /\ Len(yields) = 3

\* ---------------------------------------------------------------------
\* The edges of the header block (warc.py 482-567)
\* ---------------------------------------------------------------------

\* a header line without a colon, a header that is the last line and lacks
\* its line end, alone and behind another header
NoColonFile == V10 \o <<"n", "o", "c", "o", "l", "o", "n">> \o CRLF \o CRLF
NoLineEndFile == V10 \o FOLDED \o <<":", SP, "y">>
LastNoLineEndFile == V10 \o CONTENT_LENGTH \o <<":", SP, "0">> \o CRLF \o FOLDED \o <<":", SP, "y">>

\* a version line and nothing behind it, with and without junk before it
VersionOnlyFile == V10
JunkVersionOnlyFile == Junk \o V10

\* a version line without its line end, and a header block the file ends in
BareVersionFile == <<"W", "A", "R", "C", "/", "1", ".", "0">>
HeadersOnlyFile == V10 \o FOLDED \o <<":", SP, "y">> \o CRLF

EdgeFiles ==
    {NoColonFile, NoLineEndFile, LastNoLineEndFile, VersionOnlyFile, JunkVersionOnlyFile,
     BareVersionFile, HeadersOnlyFile}
    \cup {Written(i) \o Written(j) : i, j \in 1..Len(Payloads)}

InitE == \E raw \in EdgeFiles : Opened(Input("warc", "plain", raw, TRUE))

\* a caller that parses from the file, iterates over it and reads payloads
NextE ==
    \/ Parse
    \/ ReadRecords
    \/ \E i \in 1..Len(recs), count \in Counts : CfRead(i, count)

SpecE == InitE /\ [][NextE]_vars

\* C33: WarcParser.parse terminates and returns a result tuple, without
\* raising, for every finite input: in particular when a line inside the
\* header block has no colon, and when the last line of the input is a
\* header that lacks its line end.
C33_ParseTerminates ==
    [][last'.op \in {"parse", "read_records"} => (~gen'.hung /\ ~last'.raised)]_vars

\* the input ends right after a version line: the line, with its line end,
\* is the last of the file
EndsAfterVersion(data, pos) ==
    /\ pos + Len(V10) = Len(data)
    /\ SubSeq(data, pos + 1, Len(data)) = V10

\* C35: when the input ends right after a version line (no header line
\* and no blank line follow it), parse returns no record and reports the
\* diagnostic "warc version but no headers" in the returned error list.
C35_VersionButNoHeaders ==
    \A k \in 1..Len(yields) :
        (/\ yields[k].offset # PyNone
         /\ EndsAfterVersion(stream.data, yields[k].offset.n)) =>
            /\ ~yields[k].isrec
            /\ \E e \in 1..Len(yields[k].errors.l) :
                  yields[k].errors.l[e][1] = "warc version but no headers"

\* ---------------------------------------------------------------------
\* set_header (record.py 204-206)
\* ---------------------------------------------------------------------

\* ArchiveRecord.set_header: the headers whose name is not `name`, byte for
\* byte, and the new header behind them
set_header(rec, name, value) ==
    LET Other(h) == h[1] # name
    IN  [rec EXCEPT !.headers = Append(SelectSeq(rec.headers, Other), <<name, value>>)]

\* the value the caller sets
NEW_VALUE == <<"N", "e", "w">>

\* recs[i].set_header(name, NEW_VALUE)
SetHeader(i, name) ==
    /\ Running
    /\ nops < MaxOps
    /\ recs' = [recs EXCEPT ![i] = set_header(recs[i], name, NEW_VALUE)]
    /\ last' = Call("set_header", i, PyBytes(name), recs[i], stream, <<>>, FALSE)
    /\ nops' = nops + 1
    /\ UNCHANGED <<stream, gen, yields, sink, hist>>

\* an application that builds a record, sets headers and looks them up
NextS ==
    \/ \E t \in LookupRecords : Build(t)
    \/ \E i \in 1..Len(recs), name \in QueryNames : SetHeader(i, name)
    \/ \E i \in 1..Len(recs), name \in QueryNames : GetHeader(i, name)

SpecS == InitW /\ [][NextS]_vars

\* the headers of other names than this one, in the order of the list
RECURSIVE OthersOf(_, _)
OthersOf(headers, name) ==
    IF headers = <<>> THEN <<>>
    ELSE (IF SameName(Head(headers)[1], name) THEN <<>> ELSE <<Head(headers)>>)
         \o OthersOf(Tail(headers), name)

\* C34: after set_header(name, value), get_header(name) returns value and
\* exactly one header of the record matches name under the case-insensitive
\* matching of the lookups, whatever headers the record held before; the
\* headers with other names keep their values and their relative order.
C34_SetHeader ==
    [][last'.op = "set_header" =>
          /\ get_header(recs'[last'.rec], last'.count.l) = PyBytes(NEW_VALUE)
          /\ Len(ValuesOf(recs'[last'.rec].headers, last'.count.l)) = 1
          /\ OthersOf(recs'[last'.rec].headers, last'.count.l)
                = OthersOf(recs[last'.rec].headers, last'.count.l)]_vars

\* ---------------------------------------------------------------------
\* Iteration and copying (stream.py 124-133, warc2warc.py 14-48)
\* ---------------------------------------------------------------------

\* A turn of __iter__ that ends the iteration whatever the errors are.
IterTurnSilent(r) ==
    [st |-> r.st, isrec |-> r.isrec /\ ~r.hang /\ ~r.raised, rec |-> r.rec,
     hang |-> r.hang, raised |-> r.raised, done |-> r.hang \/ r.raised \/ ~r.isrec]

\* one turn of the loop of RecordStream.__iter__ on what _read_record
\* returned: the record is yielded; errors without a record raise; else the
\* iteration ends
IterTurn(r) ==
    [st |-> r.st, isrec |-> r.isrec /\ ~r.hang /\ ~r.raised, rec |-> r.rec,
     hang |-> r.hang,
     raised |-> r.raised \/ (~r.hang /\ ~r.isrec /\ Truth(r.third)),
     done |-> r.hang \/ r.raised \/ ~r.isrec]

\* next(iter(stream))
iter_next(st) == IterTurn(read_record(st, FALSE))

\* a record with a header whose value ends in a space
SpacedTemplate ==
    WarcRecord(VERSION, SeqHeaders(1, WARCINFO) \o <<<<FOLDED, <<"y", SP>>>>>>,
               ContentPair(PyBytes(TextPlain), Payloads[1]), <<>>, NoFile)

CopyTemplates == SeqTemplates \cup {SpacedTemplate}

CopyLists == UNION {[1..n -> CopyTemplates] : n \in 0..MaxSeq}

\* the file write_to makes of these records
RECURSIVE WrittenFile(_)
WrittenFile(list) ==
    IF list = <<>> THEN <<>>
    ELSE write_to(Head(list), NewStream("plain", <<>>, <<>>), FALSE).out
         \o WrittenFile(Tail(list))

InitY ==
    \E list \in CopyLists :
        /\ stream = open_archive(WrittenFile(list))
        /\ gen = [offsets |-> FALSE, done |-> FALSE, hung |-> FALSE, raised |-> FALSE,
                  seeked |-> PyNone]
        /\ recs = <<>>
        /\ yields = <<>>
        /\ sink = <<>>
        /\ nops = 0
        /\ hist = [seeks |-> 0, negative |-> FALSE]
        /\ last = Call("open", 0, PyNone, NoRecord, stream, <<>>, FALSE)

\* one turn of `for record in fh: process(record, out, gzip, ...)` without
\* decode_http: the record is written to out as it was read
CopyTurn ==
    /\ Running
    /\ ~gen.done
    /\ \E r \in {iter_next(stream)} :
       \E w \in {IF r.isrec THEN write_to(r.rec, r.st, FALSE)
                 ELSE [rec |-> r.rec, st |-> r.st, out |-> <<>>, raised |-> FALSE]} :
          /\ stream' = w.st
          /\ gen' = [gen EXCEPT !.done = r.done \/ w.raised, !.hung = r.hang,
                                !.raised = r.raised \/ w.raised]
          /\ recs' = IF r.isrec THEN Append(recs, w.rec) ELSE recs
          /\ sink' = sink \o w.out
          /\ last' = Call("copy", IF r.isrec THEN Len(recs) + 1 ELSE 0, PyNone, r.rec,
                          stream, w.out, r.raised \/ w.raised)
    /\ UNCHANGED <<yields, nops, hist>>

NextY == CopyTurn

SpecY == InitY /\ [][NextY]_vars

\* the record as parse gives it back: the names and the values of its
\* headers without the whitespace around them
Trimmed(t) ==
    [t EXCEPT !.headers = [k \in 1..Len(t.headers) |->
                              <<Strip(t.headers[k][1]), Strip(t.headers[k][2])>>]]

IterInputs ==
    {Input("warc", how, Stored(list, how), FALSE) : list \in StoredLists, how \in Storages}
    \cup Inputs

InitJ == \E in \in IterInputs : Opened(in)

\* next(iter(stream)): one turn of the loop of __iter__
IterNext ==
    /\ Running
    /\ ~gen.done
    /\ \E r \in {iter_next(stream)} :
       /\ stream' = r.st
       /\ gen' = [gen EXCEPT !.done = r.done \/ r.raised, !.hung = r.hang,
                             !.raised = r.raised]
       /\ recs' = IF r.isrec THEN Append(recs, r.rec) ELSE recs
       /\ last' = Call("iter", IF r.isrec THEN Len(recs) + 1 ELSE 0, PyNone, NoRecord,
                       stream, <<>>, r.raised)
    /\ UNCHANGED <<yields, sink, nops, hist>>

NextJ == IterNext

SpecJ == InitJ /\ [][NextJ]_vars

\* for offset, record, errors in stream.read_records(limit=None): the
\* records of the tuples that have one, and how the loop ends: with a tuple
\* without errors, with a tuple that carries errors, with an exception, or
\* never
RECURSIVE ReadRecordsAll(_)
ReadRecordsAll(st) ==
    LET Tuple(r) ==
            IF r.hang THEN [records |-> <<>>, end |-> "hang"]
            ELSE IF r.raised THEN [records |-> <<>>, end |-> "raised"]
            ELSE IF ~r.isrec
            THEN [records |-> <<>>,
                  end |-> IF r.third.tag = "list" /\ r.third.l # <<>> THEN "errors"
                          ELSE "clean"]
            ELSE [records |-> <<r.rec>> \o ReadRecordsAll(r.st).records,
                  end |-> ReadRecordsAll(r.st).end]
    IN  Tuple(read_record(st, TRUE))

\* the transport as it was opened
Reopened == open_record_stream(stream.parser, stream.kind, stream.raw, 0)

\* C37: iterating a transport directly yields exactly the non-null records
\* that read_records(limit=None) yields on the same input, in the same
\* order; it ends silently when the input ends cleanly and raises an
\* exception when the terminal outcome carries errors, for each of the
\* three transports.
C37_IterMatchesReadRecords ==
    LET Same(all) ==
            /\ Len(recs) <= Len(all.records)
            /\ recs = SubSeq(all.records, 1, Len(recs))
            /\ gen.done =>
                  /\ recs = all.records
                  /\ gen.hung = (all.end = "hang")
                  /\ gen.raised = (all.end \in {"errors", "raised"})
    IN  Same(ReadRecordsAll(Reopened))

\* C37's case: the iteration over a record and a line of junk, stored in
\* one gzip member and read by the transport for such files, yielded the
\* record and then raised.
C37_Witness ==
    /\ gen.done
    /\ stream.kind = "file"
    /\ stream.raw = Stored(<<ValidBytes(1), Junk>>, "file")
    /\ Len(recs) = 1
    /\ gen.raised

\* ---------------------------------------------------------------------
\* read_records with a limit (stream.py 111-122)
\* ---------------------------------------------------------------------

MaxLimit == 2       \* the largest limit read_records is called with

\* The loop condition that lets one tuple more through.
LimitPassed(limit, nrecords) == ~IsNone(limit) /\ nrecords > limit.n

\* not (limit is None or nrecords < limit)
LimitReached(limit, nrecords) == ~IsNone(limit) /\ nrecords >= limit.n

Limits == {PyNone} \cup {PyInt(n) : n \in 0..MaxLimit}

InitN ==
    \E list \in StoredLists, how \in Storages, limit \in Limits :
        /\ stream = open_record_stream("warc", how, Stored(list, how), 0)
        /\ gen = [offsets |-> TRUE, done |-> FALSE, hung |-> FALSE, raised |-> FALSE,
                  seeked |-> PyNone, limit |-> limit, nrecords |-> 0]
        /\ recs = <<>>
        /\ yields = <<>>
        /\ sink = <<>>
        /\ nops = 0
        /\ hist = [seeks |-> 0, negative |-> FALSE]
        /\ last = Call("open", 0, PyNone, NoRecord, stream, <<>>, FALSE)

\* next(g) on g = stream.read_records(limit): the generator goes on from
\* the yield it stopped at, or from its start
GenNext ==
    /\ Running
    /\ ~gen.done
    /\ IF \/ (yields # <<>> /\ ~yields[Len(yields)].isrec)
          \/ LimitReached(gen.limit, gen.nrecords)
       THEN \* `if not record: break`, or the loop condition fails: StopIteration
            /\ gen' = [gen EXCEPT !.done = TRUE]
            /\ last' = Call("next", 0, gen.limit, NoRecord, stream, <<"StopIteration">>, FALSE)
            /\ UNCHANGED <<stream, recs, yields>>
       ELSE \E r \in {read_record(stream, gen.offsets)} :
            /\ stream' = r.st
            /\ gen' = [gen EXCEPT !.done = r.hang \/ r.raised, !.hung = r.hang,
                                  !.raised = r.raised,
                                  !.nrecords = IF r.hang \/ r.raised THEN @ ELSE @ + 1]
            /\ recs' = IF r.isrec /\ ~r.hang /\ ~r.raised THEN Append(recs, r.rec) ELSE recs
            /\ yields' = IF r.hang \/ r.raised THEN yields
                         ELSE Append(yields,
                                 [offset |-> r.first, isrec |-> r.isrec,
                                  rec |-> IF r.isrec THEN Len(recs) + 1 ELSE 0,
                                  errors |-> r.third,
                                  record |-> r.rec,
                                  at |-> r.st.pos,
                                  limit |-> r.st.bytes_to_eoc,
                                  seeked |-> PyNone])
            /\ last' = Call("next", 0, gen.limit, NoRecord, stream, <<>>, r.raised)
    /\ UNCHANGED <<sink, nops, hist>>

NextN == GenNext

SpecN == InitN /\ [][NextN]_vars

\* C38: read_records is finite: read_records(limit=n) yields at most n
\* tuples, read_records(limit=None) on a finite input yields finitely many
\* tuples (every tuple with a record ends further in the input than the
\* one before, so there are no more of them than bytes), and in both cases
\* a tuple with a null record is the last tuple yielded: nothing is read
\* from the source after it.
C38_ReadRecordsFinite ==
    [][/\ ~IsNone(gen.limit) => Len(yields') <= gen.limit.n
       /\ Len(yields') <= Len(stream.data) + 1
       /\ \A k \in 1..(Len(yields') - 1) :
             /\ yields'[k].isrec
             /\ yields'[k + 1].isrec => yields'[k].at < yields'[k + 1].at
       /\ (yields # <<>> /\ ~yields[Len(yields)].isrec) =>
             (stream' = stream /\ yields' = yields)]_vars

\* C38's cases: the generator with limit 1 was asked for a second tuple of
\* a file of two records and ended without reading.
C38_Witness ==
    /\ gen.limit = PyInt(1)
    /\ gen.done
    /\ Len(yields) = 1
    /\ yields[1].isrec
    /\ stream.raw = Stored(<<ValidBytes(1), ValidBytes(3)>>, "plain")
    /\ last.result = <<"StopIteration">>

\* ---------------------------------------------------------------------
\* arc2warc (arc2warc.py 31-172)
\* ---------------------------------------------------------------------

MaxArc == 3         \* ARC records the transformer converts in one run

WARCINFO_ID == <<"W", "A", "R", "C", "-", "W", "a", "r", "c", "i", "n", "f", "o", "-", "I", "D">>
CONCURRENT_TO == <<"W", "A", "R", "C", "-", "C", "o", "n", "c", "u", "r", "r", "e", "n", "t", "-", "T", "o">>
IP_ADDRESS == <<"W", "A", "R", "C", "-", "I", "P", "-", "A", "d", "d", "r", "e", "s", "s">>
FILEDESC == <<"f", "i", "l", "e", "d", "e", "s", "c">>

\* None where a header list holds it in the place of bytes
NONE_VALUE == <<"None">>

\* the ARC records that arrive: the type, url, date and IP address that
\* ArcRecord gives, and the content type and the content
ArcRecord(type, url, date, ip, ctype, data) ==
    [type |-> type, url |-> url, date |-> date, ip |-> ip,
     content |-> ContentPair(PyBytes(ctype), data)]

ArcRecords ==
    {ArcRecord(FILEDESC, <<"f", "i", "l", "e", "d", "e", "s", "c", ":", "/", "/", "a", ".", "a", "r", "c">>, <<"2", "0", "2", "0", "0", "1", "0", "1">>, PyNone, TextPlain, <<"1", SP, "0">>),
     ArcRecord(FILEDESC, <<"a", ".", "a", "r", "c">>, <<>>, PyNone, TextPlain, <<"1", SP, "0">>),
     ArcRecord(RESPONSE, <<"h", "t", "t", "p", ":", "/", "/", "a", "/", "1">>, <<"2", "0", "2", "0", "0", "1", "0", "2", "0", "3", "0", "4", "0", "5">>, PyBytes(<<"1", ".", "2", ".", "3", ".", "4">>), TextPlain, <<"H", "i">>),
     ArcRecord(RESPONSE, <<"d", "n", "s", ":", "a">>, <<"2", "0", "2", "0", "0", "1", "0", "1">>, PyBytes(<<"0", ".", "0", ".", "0", ".", "0">>), <<"t", "e", "x", "t", "/", "d", "n", "s">>, <<"x">>),
     ArcRecord(RESPONSE, <<"h", "t", "t", "p", ":", "/", "/", "a", "/", "1">>, <<>>, PyNone, <<SP>>, <<>>)}

\* datetime.datetime.now(), as warc_datetime_str writes it
Clock == {<<"2", "0", "2", "6", "-", "0", "1", "-", "0", "1", "T", "0", "0", ":", "0", "0", ":", "0", "0", "Z">>, <<"2", "0", "2", "6", "-", "0", "1", "-", "0", "1", "T", "0", "0", ":", "0", "0", ":", "0", "1", "Z">>}

\* warc_datetime_str(strptime(date, "%Y%m%d%H%M%S")), and with "%Y%m%d" for
\* a date of eight digits
WarcDate(date, now) ==
    IF date = <<>> THEN now
    ELSE SubSeq(date, 1, 4) \o <<"-">> \o SubSeq(date, 5, 6) \o <<"-">> \o SubSeq(date, 7, 8)
         \o <<"T">>
         \o (IF Len(date) >= 14
             THEN SubSeq(date, 9, 10) \o <<":">> \o SubSeq(date, 11, 12) \o <<":">>
                  \o SubSeq(date, 13, 14)
             ELSE <<"0", "0", ":", "0", "0", ":", "0", "0">>)
         \o <<"Z">>

\* make_warc_uuid(text): a urn:uuid made of a hash of the text; the model
\* keeps the text in the place of its hash
make_warc_uuid(text) == <<"<", "u", "u", "i", "d", ":">> \o text \o <<">">>

\* the value convert_record puts in the header list for self.warcinfo_id
WarcinfoIdValue(warcinfo_id) ==
    IF IsNone(warcinfo_id) THEN NONE_VALUE ELSE warcinfo_id.l

\* ArcTransformer.convert_filedesc: the warcinfo record and the metadata
\* record, and the transformer's new warcinfo_id
convert_filedesc(record, now) ==
    LET warcinfo_id == make_warc_uuid(record.url \o now)
        warcmeta_url == IF Len(record.url) >= 11
                           /\ Take(record.url, 11) = FILEDESC \o <<":", "/", "/">>
                        THEN Drop(record.url, 11) ELSE record.url
    IN  [warcinfo_id |-> PyBytes(warcinfo_id),
         out |-> <<WarcRecord(VERSION,
                              <<<<TYPE, WARCINFO>>, <<ID, warcinfo_id>>, <<DATE, now>>>>,
                              ContentPair(PyBytes(<<"a", "p", "p", "l", "i", "c", "a", "t", "i", "o", "n", "/", "w", "a", "r", "c", "-", "f", "i", "e", "l", "d", "s">>), <<"s", "o", "f", "t", "w", "a", "r", "e", ":", SP, "h", "a", "n", "z", "o", ".", "a", "r", "c", "2", "w", "a", "r", "c">> \o CRLF),
                              <<>>, NoFile),
                   WarcRecord(VERSION,
                              <<<<TYPE, METADATA>>,
                                <<CONCURRENT_TO, warcinfo_id>>,
                                <<ID, make_warc_uuid(record.url \o record.date
                                                     \o <<"-", "m", "e", "t", "a">>)>>,
                                <<URL, warcmeta_url>>,
                                <<DATE, WarcDate(record.date, now)>>,
                                <<WARCINFO_ID, warcinfo_id>>>>,
                              ContentPair(PyBytes(<<"a", "p", "p", "l", "i", "c", "a", "t", "i", "o", "n", "/", "a", "r", "c">>), record.content.data),
                              <<>>, NoFile)>>]

\* ArcTransformer.convert_record: one record, a resource or a response; the
\* http content is taken for a response when it starts like one, and what
\* is neither http nor a dns text equal to its own decoding, which bytes
\* never are, is a response
convert_record(record, warcinfo_id, now) ==
    LET ip == IF Not(record.ip) \/ Strip(record.ip.l) = <<"0", ".", "0", ".", "0", ".", "0">> THEN <<>>
              ELSE <<<<IP_ADDRESS, Strip(record.ip.l)>>>>
        url == Lower(record.url)
        is_http_response == Len(record.content.data) >= 1
                            /\ Head(record.content.data) = "H"
        is_http == Len(url) >= 4 /\ Take(url, 4) = <<"h", "t", "t", "p">>
        ctype ==
            IF is_http /\ is_http_response THEN <<"a", "p", "p", "l", "i", "c", "a", "t", "i", "o", "n", "/", "h", "t", "t", "p", ";", "m", "s", "g", "t", "y", "p", "e", "=", "r", "e", "s", "p", "o", "n", "s", "e">>
            ELSE IF Strip(record.content.type.l) = <<>> THEN <<"a", "p", "p", "l", "i", "c", "a", "t", "i", "o", "n", "/", "o", "c", "t", "e", "t", "-", "s", "t", "r", "e", "a", "m">>
            ELSE record.content.type.l
        record_type ==
            IF is_http
            THEN (IF is_http_response THEN RESPONSE ELSE RESOURCE)
            ELSE RESPONSE
    IN  [warcinfo_id |-> warcinfo_id,
         out |-> <<WarcRecord(VERSION,
                              <<<<ID, make_warc_uuid(record.url \o record.date)>>,
                                <<URL, record.url>>,
                                <<WARCINFO_ID, WarcinfoIdValue(warcinfo_id)>>>>
                              \o ip
                              \o <<<<DATE, WarcDate(record.date, now)>>,
                                   <<TYPE, record_type>>>>,
                              ContentPair(PyBytes(ctype), record.content.data),
                              <<>>, NoFile)>>]

\* ArcTransformer.convert
convert(record, warcinfo_id, now) ==
    IF record.type = FILEDESC THEN convert_filedesc(record, now)
    ELSE convert_record(record, warcinfo_id, now)

\* ArcTransformer(): gen is the transformer, yields the ARC records that
\* arrived with the WARC records made of each, recs the WARC records
InitA ==
    /\ stream = NewStream("plain", <<>>, <<>>)
    /\ gen = [offsets |-> FALSE, done |-> FALSE, hung |-> FALSE, raised |-> FALSE,
              seeked |-> PyNone, warcinfo_id |-> PyNone]
    /\ recs = <<>>
    /\ yields = <<>>
    /\ sink = <<>>
    /\ nops = 0
    /\ hist = [seeks |-> 0, negative |-> FALSE]
    /\ last = Call("open", 0, PyNone, NoRecord, stream, <<>>, FALSE)

\* warcs = arc.convert(record)
Convert(record, now) ==
    /\ nops < MaxArc
    /\ \E c \in {convert(record, gen.warcinfo_id, now)} :
       /\ gen' = [gen EXCEPT !.warcinfo_id = c.warcinfo_id]
       /\ recs' = recs \o c.out
       /\ yields' = Append(yields, [arc |-> record, out |-> c.out])
    /\ nops' = nops + 1
    /\ last' = Call("convert", 0, PyNone, NoRecord, stream, <<>>, FALSE)
    /\ UNCHANGED <<stream, sink, hist>>

NextA == \E record \in ArcRecords, now \in Clock : Convert(record, now)

SpecA == InitA /\ [][NextA]_vars

\* the record ids of the warcinfo records made of the first k ARC records
WarcinfoIdsBefore(k) ==
    {get_header(yields[j].out[n], ID) :
        j \in {i \in 1..(k - 1) : yields[i].arc.type = FILEDESC}, n \in {1}}

\* C39: every WARC record that ArcTransformer.convert emits for an ARC
\* record that is not a filedesc record carries a WARC-Warcinfo-ID field
\* whose value is the record id of a warcinfo record emitted earlier by the
\* same transformer, never an absent or null value, for every order in
\* which filedesc and ordinary ARC records arrive.
C39_WarcinfoIdPresent ==
    \A k \in 1..Len(yields) :
        yields[k].arc.type # FILEDESC =>
            \A n \in 1..Len(yields[k].out) :
                /\ get_header(yields[k].out[n], WARCINFO_ID) # PyNone
                /\ get_header(yields[k].out[n], WARCINFO_ID) # PyBytes(NONE_VALUE)
                /\ get_header(yields[k].out[n], WARCINFO_ID) \in WarcinfoIdsBefore(k)

\* ---------------------------------------------------------------------
\* warcfilter (warcfilter.py 15-87)
\* ---------------------------------------------------------------------

MaxFiltered == 2    \* records of the archive that is filtered

APPLICATION_HTTP == <<"a", "p", "p", "l", "i", "c", "a", "t", "i", "o", "n", "/", "h", "t", "t", "p">>
HTTP_CONTENT_TYPE == <<"C", "o", "n", "t", "e", "n", "t", "-", "T", "y", "p", "e">>
HTTP_STATUS == <<"H", "T", "T", "P", "/", "1", ".", "1", SP, "2", "0", "0", SP, "O", "K">>

\* an HTTP response with this Content-Type header, or with none
HttpResponse(mime, data) ==
    HTTP_STATUS \o CRLF
    \o (IF IsNone(mime) THEN <<>> ELSE HTTP_CONTENT_TYPE \o <<":", SP>> \o mime.l \o CRLF)
    \o CRLF \o data

\* pattern.search(value) for a pattern without special characters
PatternSearch(pattern, value) ==
    \E k \in 0..(Len(value) - Len(pattern)) : SubSeq(value, k + 1, k + Len(pattern)) = pattern

\* bool(value and pattern.search(value))
Found(pattern, value) == ~Not(value) /\ PatternSearch(pattern, value.l)

\* parse_http_response(record)[1]: the value of the first Content-Type
\* header of the response, up to a semicolon, or None
MimeType(data) ==
    LET first == EndOfLine(data, 0)
        second == EndOfLine(data, first)
        line == SubSeq(data, first + 1, second)
        name == HTTP_CONTENT_TYPE \o <<":">>
        value == Strip(Drop(line, Len(name)))
        semis == {k \in 1..Len(value) : value[k] = ";"}
        semi == IF semis = {} THEN Len(value) + 1
                ELSE CHOOSE k \in semis : \A j \in semis : k <= j
    IN  IF Len(line) >= Len(name) /\ Take(line, Len(name)) = name
        THEN PyBytes(Take(value, semi - 1)) ELSE PyNone

\* the records of the archive: the type, the url when there is one, the
\* date, the content type when there is one, and the payload
FilterHeaders(i, type, url) ==
    <<<<TYPE, type>>, <<ID, RecordId(i)>>,
      <<DATE, <<"2", "0", "2", Digits[i], "Z">>>>>>
    \o (IF url THEN <<<<URL, <<"h", ":", "/", "/", "a", "/", Digits[i + 1]>>>>>> ELSE <<>>)

FilterTemplates ==
    {WarcRecord(VERSION, FilterHeaders(1, WARCINFO, TRUE),
                ContentPair(PyBytes(TextPlain), <<"h", "i">>), <<>>, NoFile),
     WarcRecord(VERSION, FilterHeaders(2, RESPONSE, TRUE),
                ContentPair(PyBytes(APPLICATION_HTTP),
                            HttpResponse(PyBytes(<<"t", "/", "h">>), <<"x">>)),
                <<>>, NoFile),
     WarcRecord(VERSION, FilterHeaders(1, RESPONSE, TRUE),
                ContentPair(PyBytes(APPLICATION_HTTP), HttpResponse(PyNone, <<"x">>)),
                <<>>, NoFile),
     WarcRecord(VERSION, FilterHeaders(2, RESPONSE, FALSE),
                ContentPair(PyNone, <<"r", "e", "s">>), <<>>, NoFile)}

FilterLists == UNION {[1..n -> FilterTemplates] : n \in 0..MaxFiltered}

\* the selection modes: the flag that is set, or none of them
Modes == {"url", "type_flag", "content_type", "http_content_type", "warc_date", "default"}

Patterns == {<<>>, <<"/", "1">>, <<"r", "e", "s">>, <<"t", "/", "h">>, <<"1", "Z">>}

\* the turn of the loop of filter_archive for one record: whether the
\* record was written, and the bytes written to out
filter_record(rec, st, pattern, invert, mode) ==
    LET Skip(r, s, raised) ==
            [rec |-> r, st |-> s, out |-> <<>>, written |-> FALSE, raised |-> raised]
        WriteIf(found, r, s) ==
            IF found # invert
            THEN LET Out(w) == [rec |-> w.rec, st |-> w.st, out |-> w.out,
                                written |-> TRUE, raised |-> w.raised]
                 IN  Out(write_to(r, s, FALSE))
            ELSE Skip(r, s, FALSE)
        ByContentType(c) ==
            IF c.raised THEN Skip(c.rec, c.st, TRUE)
            ELSE WriteIf(Found(pattern, c.result), c.rec, c.st)
        ByMime(c) ==
            IF c.raised THEN Skip(c.rec, c.st, TRUE)
            ELSE WriteIf(Found(pattern, MimeType(c.result.data)), c.rec, c.st)
        \* record.content_type.startswith raises when content_type is None
        ByHttp(c) ==
            IF c.raised \/ IsNone(c.result) THEN Skip(c.rec, c.st, TRUE)
            ELSE IF Len(c.result.l) >= Len(APPLICATION_HTTP)
                    /\ Take(c.result.l, Len(APPLICATION_HTTP)) = APPLICATION_HTTP
            THEN ByMime(content(c.rec, c.st))
            ELSE Skip(c.rec, c.st, FALSE)
        InHeaders == \E k \in 1..Len(rec.headers) : PatternSearch(pattern, rec.headers[k][2])
        ByDefault(c) ==
            IF c.raised THEN Skip(c.rec, c.st, TRUE)
            ELSE WriteIf(InHeaders \/ PatternSearch(pattern, c.result.data), c.rec, c.st)
    IN  CASE mode = "url" -> WriteIf(Found(pattern, get_header(rec, URL)), rec, st)
          [] mode = "type_flag" -> WriteIf(Found(pattern, get_header(rec, TYPE)), rec, st)
          [] mode = "content_type" -> ByContentType(content_type(rec, st))
          [] mode = "http_content_type" ->
                IF get_header(rec, TYPE) = PyBytes(RESPONSE)
                THEN ByHttp(content_type(rec, st))
                ELSE Skip(rec, st, FALSE)
          [] mode = "warc_date" -> WriteIf(Found(pattern, get_header(rec, DATE)), rec, st)
          [] OTHER -> ByDefault(content(rec, st))

\* the two runs of warcfilter on one archive, without -i and with it: each
\* has its own transport (stream), its records read (recs), the positions
\* in the input of the records it wrote (yields) and its out (sink)
Runs == BOOLEAN

InitZ ==
    \E list \in FilterLists, mode \in Modes, pattern \in Patterns :
        /\ stream = [invert \in Runs |-> open_archive(WrittenFile(list))]
        /\ gen = [mode |-> mode, pattern |-> pattern, input |-> Len(list),
                  done |-> [invert \in Runs |-> FALSE],
                  hung |-> [invert \in Runs |-> FALSE],
                  raised |-> [invert \in Runs |-> FALSE]]
        /\ recs = [invert \in Runs |-> <<>>]
        /\ yields = [invert \in Runs |-> <<>>]
        /\ sink = [invert \in Runs |-> <<>>]
        /\ nops = 0
        /\ hist = [seeks |-> 0, negative |-> FALSE]
        /\ last = Call("open", 0, PyNone, NoRecord, stream[FALSE], <<>>, FALSE)

\* one turn of `for record in fh:` of filter_archive in the run with this
\* invert
FilterTurn(invert) ==
    /\ ~gen.done[invert]
    /\ \E r \in {iter_next(stream[invert])} :
       \E w \in {IF r.isrec
                 THEN filter_record(r.rec, r.st, gen.pattern, invert, gen.mode)
                 ELSE [rec |-> r.rec, st |-> r.st, out |-> <<>>, written |-> FALSE,
                       raised |-> FALSE]} :
          /\ stream' = [stream EXCEPT ![invert] = w.st]
          /\ gen' = [gen EXCEPT !.done[invert] = r.done \/ w.raised,
                                !.hung[invert] = r.hang,
                                !.raised[invert] = r.raised \/ w.raised]
          /\ recs' = [recs EXCEPT ![invert] = IF r.isrec THEN Append(@, w.rec) ELSE @]
          /\ yields' = [yields EXCEPT
                           ![invert] = IF w.written THEN Append(@, Len(recs[invert]) + 1)
                                       ELSE @]
          /\ sink' = [sink EXCEPT ![invert] = @ \o w.out]
          /\ last' = Call("filter", IF r.isrec THEN Len(recs[invert]) + 1 ELSE 0, PyNone,
                          r.rec, stream[invert], w.out, r.raised \/ w.raised)
    /\ UNCHANGED <<nops, hist>>

NextZ == \E invert \in Runs : FilterTurn(invert)

SpecZ == InitZ /\ [][NextZ]_vars

\* the times the record at position k of the input was written in a run
TimesWritten(invert, k) ==
    Cardinality({n \in 1..Len(yields[invert]) : yields[invert][n] = k})

\* C40: a filter and its inversion partition the input: for every selection
\* mode of filter_archive (url, type, content type, http content type, date,
\* default) and every pattern, each input record is written exactly once by
\* exactly one of the two runs (invert off, invert on), and within each run
\* the written records keep their input order.
C40_FilterPartition ==
    (\A invert \in Runs : gen.done[invert]) =>
        /\ \A k \in 1..gen.input : TimesWritten(FALSE, k) + TimesWritten(TRUE, k) = 1
        /\ \A invert \in Runs :
              \A m, n \in 1..Len(yields[invert]) :
                  m < n => yields[invert][m] < yields[invert][n]

====
